---- MODULE Spec2Model ----
(***************************************************************************)
(* A model of the ogma compiler front end: the error substrate            *)
(* (common/err.rs), the block compilation API (eng/blk.rs), the pipeline  *)
(* intrinsics (lang/impls/intrinsics/pipeline.rs), the inference loop     *)
(* that drives them and the batch driver exercised by                     *)
(* tests/batch-files.rs.                                                   *)
(*                                                                         *)
(* Four specifications share the module, each with its own variables:     *)
(*   SpecErr   the error constructors, applied to enumerated inputs       *)
(*   SpecBlk   one Block driven through its API by an implementation      *)
(*   SpecComp  the inference loop compiling a pipeline of Op nodes        *)
(*             (FairSpecComp: the same loop, run to its end)              *)
(*   SpecBat   the batch driver processing the statements of a batch      *)
(***************************************************************************)
EXTENDS Integers, Sequences, FiniteSets, TLC

\* The field names of the model's records.  Every record below lists its
\* fields in this (alphabetical) order.
Fields ==
    DOMAIN
      [ann |-> 0,
       applied |-> 0,
       arg |-> 0,
       args |-> 0,
       args_count |-> 0,
       before |-> 0,
       bindings |-> 0,
       blk |-> 0,
       call |-> 0,
       carets |-> 0,
       cat |-> 0,
       chg |-> 0,
       chgs |-> 0,
       code |-> 0,
       col |-> 0,
       compiled |-> 0,
       conflict |-> 0,
       cx |-> 0,
       data |-> 0,
       desc |-> 0,
       end |-> 0,
       env |-> 0,
       err |-> 0,
       events |-> 0,
       fail_fast |-> 0,
       fails |-> 0,
       field |-> 0,
       fields |-> 0,
       finished |-> 0,
       flag |-> 0,
       flags |-> 0,
       from |-> 0,
       got |-> 0,
       hard |-> 0,
       header |-> 0,
       help_msg |-> 0,
       hi |-> 0,
       hint |-> 0,
       holders |-> 0,
       idx |-> 0,
       impl |-> 0,
       in_name |-> 0,
       in_ty |-> 0,
       input |-> 0,
       inserted |-> 0,
       inst |-> 0,
       items |-> 0,
       kind |-> 0,
       left |-> 0,
       len |-> 0,
       lg |-> 0,
       line |-> 0,
       lines |-> 0,
       live |-> 0,
       lo |-> 0,
       loc |-> 0,
       name |-> 0,
       next |-> 0,
       node |-> 0,
       noop |-> 0,
       ok |-> 0,
       oks |-> 0,
       op |-> 0,
       op_tag |-> 0,
       out |-> 0,
       out_ty |-> 0,
       output |-> 0,
       output_ty |-> 0,
       parallelise |-> 0,
       parts |-> 0,
       pass |-> 0,
       res |-> 0,
       rows |-> 0,
       some |-> 0,
       source |-> 0,
       src |-> 0,
       start |-> 0,
       step |-> 0,
       str |-> 0,
       structure |-> 0,
       tag |-> 0,
       text |-> 0,
       tg |-> 0,
       to |-> 0,
       trace |-> 0,
       traces |-> 0,
       trailing |-> 0,
       ty |-> 0,
       v |-> 0,
       value |-> 0,
       var |-> 0,
       variant |-> 0]

VARIABLES
    ctor, err,                       \* SpecErr: constructor last called, its value
    debug,                           \* cfg(debug_assertions) of the build
    blk, blg, ret,                   \* SpecBlk: the Block, its locals graph, last return
    ag, root_ty, tg, lg, steps, pc, pass, cur, changed, pend, last, result,
    pass_tg, pass_lg,                \* SpecComp: the inference loop
    source, batch, outcomes, started, inflight, failed, phase, run,
    first_outcomes,                  \* SpecBat: the batch driver
    carried, env, at, invoked, events,
    outcome                          \* SpecRun: the evaluation of the steps

errVars  == <<ctor, err>>
blkVars  == <<blk, blg, ret>>
compVars ==
    <<ag, root_ty, tg, lg, steps, pc, pass, cur, changed, pend, last, result,
      pass_tg, pass_lg>>
batVars  ==
    <<source, batch, outcomes, started, inflight, failed, phase, run, first_outcomes>>
evalVars == <<carried, env, at, invoked, events, outcome>>
vars     == <<errVars, debug, blkVars, compVars, batVars, evalVars>>

----------------------------------------------------------------------------
(* Bounds of the model.                                                    *)

\* Largest number of arguments of a block.
MaxArgs == 2
\* Largest number of flags of a block.
MaxFlags == 2
\* Largest number of changes a block's buffer holds in SpecBlk.
MaxChgs == 2

----------------------------------------------------------------------------
(* Values shared by the specifications.                                    *)

None == "None"

\* Option<String> and Option<&str>: << >> is None, <<s, ...>> is Some of the
\* pieces a format! call concatenates.
NoStr == << >>

\* The built-in types.
Types == {"Nil", "Bool", "Num", "Str", "Tab", "TabRow"}

\* A Tag: the text it spans and its byte range in the line.
Tag(s, a, b) == [end |-> b, start |-> a, str |-> s]

DefaultTag == Tag("", 0, 0)

----------------------------------------------------------------------------
(* common/err.rs: the error substrate.                                     *)

Categories ==
    {"Internal", "Parsing", "UnknownCommand", "Semantics", "Type",
     "Evaluation", "Definitions", "Help"}

\* impl Default for Category
DefaultCategory == "Internal"

\* Trace::from_tag
from_tag(tag, desc) ==
    [desc |-> desc, len |-> tag.end - tag.start, start |-> tag.start]

\* trace(tag, desc): a single trace item
trace(tag, desc) == << from_tag(tag, desc) >>

\* #[derive(Default)] for Error
DefaultError ==
    [cat |-> DefaultCategory,
     desc |-> NoStr,
     hard |-> FALSE,
     help_msg |-> NoStr,
     traces |-> << >>]

\* The registered pipeline intrinsics, in registration order: (op, input type).
Impls ==
    << [op |-> "get", ty |-> "TabRow"], [op |-> "get", ty |-> None],
       [op |-> ".", ty |-> None], [op |-> "\\", ty |-> None],
       [op |-> "len", ty |-> "Str"], [op |-> "len", ty |-> "Tab"],
       [op |-> "let", ty |-> None],
       [op |-> "nth", ty |-> "Str"], [op |-> "nth", ty |-> "Tab"],
       [op |-> "rand", ty |-> None], [op |-> "range", ty |-> None],
       [op |-> "Table", ty |-> None],
       [op |-> "to-str", ty |-> "Bool"], [op |-> "to-str", ty |-> "Num"],
       [op |-> "to-str", ty |-> "Str"], [op |-> "to-str", ty |-> None],
       [op |-> "Tuple", ty |-> None] >>

\* tystr inside op_not_found
tystr(x) == IF x = None THEN "<any>" ELSE x

RECURSIVE iter_op_from(_, _, _)
iter_op_from(impls, op, i) ==
    IF i > Len(impls) THEN << >>
    ELSE IF impls[i].op = op
         THEN << tystr(impls[i].ty) >> \o iter_op_from(impls, op, i + 1)
         ELSE iter_op_from(impls, op, i + 1)

\* impls.iter_op(op), mapped through tystr: the input types op is registered for
iter_op(impls, op) == iter_op_from(impls, op, 1)

op_not_found(op, inty, recursion_detected, impls) ==
    LET ty  == iter_op(impls, op.str)
        hlp == IF recursion_detected THEN << "recursion is not supported." >>
               ELSE IF ty = << >>
                    THEN << "view a list of definitions using 'def --list'" >>
                    ELSE << "'", op.str,
                            "' is implemented for the following input types:" >> \o ty
    IN  [cat |-> "UnknownCommand",
         desc |-> << "operation '", op.str, "' not defined" >>,
         hard |-> TRUE,
         help_msg |-> hlp,
         traces |-> trace(op, << "'", op.str, "' not defined for input '",
                                 tystr(inty), "'" >>)]

\* signature is None or the name of the definition whose parameters are listed
insufficient_args(block_tag, args_count, signature) ==
    LET help == IF signature = None
                THEN << "try using the '--help' flag to view requirements" >>
                ELSE << "try using the '--help' flag to view requirements", ".",
                        signature, "is defined to accept parameters" >>
    IN  [cat |-> "Semantics",
         desc |-> << "expecting more than ", ToString(args_count), " arguments" >>,
         hard |-> TRUE,
         help_msg |-> help,
         traces |-> trace(block_tag, << "expecting additional argument(s)" >>)]

RECURSIVE unused_flags_fold(_, _)
\* flags.rev().fold(..): (desc, traces) over the flags from last to first
unused_flags_fold(flags, i) ==
    IF i = 0 THEN [desc |-> << "not expecting flags: " >>, traces |-> << >>]
    ELSE LET rest == unused_flags_fold(flags, i - 1)
             flag == flags[Len(flags) + 1 - i]
         IN  [desc |-> rest.desc \o << "'", flag.str, "'", ", " >>,
              traces |-> Append(rest.traces, from_tag(flag, << "flag not supported" >>))]

\* desc.trim_end_matches(", ")
trim_end_delim(d) ==
    IF Len(d) > 0 /\ d[Len(d)] = ", " THEN SubSeq(d, 1, Len(d) - 1) ELSE d

unused_flags(flags) ==
    LET f == unused_flags_fold(flags, Len(flags))
    IN  [cat |-> "Semantics",
         desc |-> trim_end_delim(f.desc),
         hard |-> TRUE,
         help_msg |-> << "try using the '--help' flag to view requirements" >>,
         traces |-> f.traces]

Min2(a, b) == IF a <= b THEN a ELSE b
Max2(a, b) == IF a >= b THEN a ELSE b

RECURSIVE reduce_tags(_, _)
\* args.cloned().reduce(..): the first tag widened to span all of them
reduce_tags(tags, i) ==
    IF i = 1 THEN tags[1]
    ELSE LET a == reduce_tags(tags, i - 1)
             b == tags[i]
         IN  [a EXCEPT !.start = Min2(a.start, b.start), !.end = Max2(a.end, b.end)]

unused_args(args) ==
    LET len == Len(args)
        tag == IF len = 0 THEN DefaultTag ELSE reduce_tags(args, len)
        msg == IF len = 1 THEN "this argument is unnecessary"
               ELSE "these arguments are unnecessary"
    IN  [DefaultError EXCEPT
            !.cat = "Semantics",
            !.desc = << "too many arguments supplied" >>,
            !.traces = trace(tag, << msg >>)]

\* Error::unexp_arg_variant without hard: a mutant.
unexp_arg_variant_soft(tag, variant) ==
    [DefaultError EXCEPT
        !.cat = "Semantics",
        !.desc = << "not expecting argument variant '", variant, "'" >>]

unexp_arg_variant(tag, variant) ==
    [cat |-> "Semantics",
     desc |-> << "not expecting argument variant '", variant, "'" >>,
     hard |-> TRUE,
     help_msg |-> << "commands may require specific argument types, use '--help' to view requirements" >>,
     traces |-> trace(tag, << "argument variant '", variant,
                              "' is not supported here" >>)]

\* Error::inference_depth without hard: a mutant.
inference_depth_soft ==
    [DefaultError EXCEPT !.cat = "Type", !.desc = << "inference depth reached" >>]

\* Error::internal_err_help: the bug-report link and a backtrace
internal_err_help ==
    << "this is an internal bug, please report it at <https://github.com/kdr-aus/ogma/issues>",
       "Please supply this BACKTRACE:" >>

ag_init_endless_loop(loop_counter, block_tag) ==
    [DefaultError EXCEPT
        !.cat = "Internal",
        !.desc = << "AST graph reach ", ToString(loop_counter), " loops" >>,
        !.traces = trace(block_tag, NoStr),
        !.help_msg = internal_err_help]

update_locals_graph(tag) ==
    [DefaultError EXCEPT
        !.cat = "Internal",
        !.desc = << "the locals graph has been changed and needs updating" >>,
        !.traces = trace(tag, NoStr),
        !.help_msg = internal_err_help]

incomplete_expr_compilation(expr) ==
    [DefaultError EXCEPT
        !.cat = "Internal",
        !.desc = << "expression is yet to be compiled" >>,
        !.traces = trace(expr, << "this expression has not finished compiling" >>),
        !.help_msg = internal_err_help]

unexp_code_injection_output_ty(ty, exp_ty, block_tag) ==
    [DefaultError EXCEPT
        !.cat = "Internal",
        !.desc = << "Internal code injection output type does not match expected output type" >>,
        !.traces = trace(block_tag, << "this block returns '", ty,
                                       "', expecting '", exp_ty, "'" >>),
        !.help_msg = internal_err_help]

\* Error::wrap_code_injection: push a trace, make the error Internal and
\* replace its help message
wrap_code_injection(self, blk_tag) ==
    [self EXCEPT
        !.traces = Append(self.traces,
                          from_tag(blk_tag, << "this block internally injects code" >>)),
        !.cat = "Internal",
        !.help_msg = internal_err_help]

inference_depth ==
    [DefaultError EXCEPT
        !.cat = "Type",
        !.desc = << "inference depth reached" >>,
        !.hard = TRUE,
        !.help_msg = << "try annotating the input and/or output types you are expecting" >>]

\* self.desc.starts_with("inference depth reached")
is_inference_depth_error(e) ==
    Len(e.desc) > 0 /\ e.desc[1] = "inference depth reached"

type_not_found(ty) ==
    [cat |-> "Semantics",
     desc |-> << "type '", ty.str, "' not defined" >>,
     hard |-> TRUE,
     help_msg |-> << "view a list of types using 'def-ty --list'" >>,
     traces |-> trace(ty, << "'", ty.str, "' not defined" >>)]

unknown_blk_output_type(b) ==
    [DefaultError EXCEPT
        !.cat = "Semantics",
        !.desc = << "unable to infer block's output type" >>,
        !.traces = trace(b, NoStr)]

\* wrong_op_input_type with the hard flag left to Error::default(): a mutant.
wrong_op_input_type_default_hard(ty, op) ==
    [DefaultError EXCEPT
        !.cat = "Semantics",
        !.desc = << "'", op.str, "' does not support '", ty, "' input data" >>,
        !.traces = trace(op, NoStr),
        !.help_msg = << "use '", op.str,
                        " --help' to view requirements. consider implementing 'def ",
                        op.str, "'" >>]

wrong_op_input_type(ty, op) ==
    [cat |-> "Semantics",
     desc |-> << "'", op.str, "' does not support '", ty, "' input data" >>,
     hard |-> TRUE,
     help_msg |-> << "use '", op.str,
                     " --help' to view requirements. consider implementing 'def ",
                     op.str, "'" >>,
     traces |-> trace(op, NoStr)]

unknown_arg_input_type(arg) ==
    [DefaultError EXCEPT
        !.cat = "Semantics",
        !.desc = << "unable to infer argument's input type" >>,
        !.traces = trace(arg, NoStr)]

unknown_arg_output_type(arg) ==
    [DefaultError EXCEPT
        !.cat = "Semantics",
        !.desc = << "unable to infer argument's output type" >>,
        !.traces = trace(arg, NoStr)]

unexp_arg_output_ty(exp, found, arg) ==
    [DefaultError EXCEPT
        !.cat = "Semantics",
        !.desc = << "expecting argument with output type '", exp,
                    "', found '", found, "'" >>,
        !.traces = trace(arg, << "this argument returns type '", found, "'" >>),
        !.help_msg = << "commands may require specific argument types, use '--help' to view requirements" >>]

----------------------------------------------------------------------------
(* The AST graph and the type / locals graphs as a Block sees them.        *)

\* An argument node of the AST graph: its variant, its tag and the output
\* type the argument builder resolves for it (None while it is unknown).
ArgNode(v, t, o) == [out_ty |-> o, tag |-> t, variant |-> v]

\* graphs::tygraph::Chg::KnownOutput(node, ty)
KnownOutput(n, ty) == [chg |-> "KnownOutput", name |-> "", node |-> n, ty |-> ty]

\* The pending locals change new_var hands back when it defers.
NewVar(n, name, ty) == [chg |-> "NewVar", name |-> name, node |-> n, ty |-> ty]

\* A Variable handle; Variable::noop binds nothing.
Variable(name, ty, noop) == [name |-> name, noop |-> noop, ty |-> ty]

NoVariable == Variable("", None, FALSE)

\* Result<T>: Ok, Err(err), or a panic raised by a debug assertion.
Ok == "Ok"
Err == "Err"
Panic == "Panic"

\* LocalsGraph::new_var: the variable when the scope node already holds the
\* binding, the pending change otherwise.  It never mutates the graph.
new_var(lgraph, n, name, ty) ==
    IF [name |-> name, node |-> n, ty |-> ty] \in lgraph
    THEN [chg |-> NewVar(n, name, ty), tag |-> Ok, var |-> Variable(name, ty, FALSE)]
    ELSE [chg |-> NewVar(n, name, ty), tag |-> Err, var |-> NoVariable]

----------------------------------------------------------------------------
(* eng/blk.rs: the Block compilation API.  A Block is the record           *)
(*   node, next     the Op node and the Op that follows it (0: none)       *)
(*   in_ty          the input type                                         *)
(*   op_tag         the command tag                                        *)
(*   args, flags    the argument and flag stacks (Vec: last is popped)     *)
(*   args_count     the arguments taken so far                             *)
(*   chgs           the change buffer                                      *)
(*   output_ty      the asserted output type (debug builds only)           *)
(*   live           FALSE once eval consumed the block or a panic unwound  *)

NewBlock(n, nxt, in_ty, op_tag, args, flags) ==
    [args |-> args,
     args_count |-> 0,
     chgs |-> << >>,
     flags |-> flags,
     in_ty |-> in_ty,
     live |-> TRUE,
     next |-> nxt,
     node |-> n,
     op_tag |-> op_tag,
     output_ty |-> None]

args_len(b) == Len(b.args)

\* Block::assert_output without the push: a mutant.
assert_output_nopush(b, ty) ==
    IF debug /\ b.output_ty # None
    THEN [blk |-> [b EXCEPT !.live = FALSE], tag |-> Panic]
    ELSE [blk |-> [b EXCEPT !.output_ty = IF debug THEN ty ELSE @], tag |-> Ok]

\* Block::assert_output that publishes for the following node: a mutant.
assert_output_on_next(b, ty) ==
    IF debug /\ b.output_ty # None
    THEN [blk |-> [b EXCEPT !.live = FALSE], tag |-> Panic]
    ELSE [blk |-> [b EXCEPT !.output_ty = IF debug THEN ty ELSE @,
                            !.chgs = Append(@, KnownOutput(b.node + 1, ty))],
          tag |-> Ok]

\* Block::assert_output
assert_output(b, ty) ==
    IF debug /\ b.output_ty # None
    THEN [blk |-> [b EXCEPT !.live = FALSE], tag |-> Panic]
    ELSE [blk |-> [b EXCEPT !.output_ty = IF debug THEN ty ELSE @,
                            !.chgs = Append(@, KnownOutput(b.node, ty))],
          tag |-> Ok]

RECURSIVE position_from(_, _, _)
position_from(flags, name, i) ==
    IF i > Len(flags) THEN 0
    ELSE IF flags[i].str = name THEN i ELSE position_from(flags, name, i + 1)

RECURSIVE position_last_from(_, _, _)
position_last_from(flags, name, i) ==
    IF i = 0 THEN 0
    ELSE IF flags[i].str = name THEN i ELSE position_last_from(flags, name, i - 1)

\* position that searches from the end: a mutant.
position_last(flags, name) == position_last_from(flags, name, Len(flags))

\* flags.iter().position(|x| x.str() == name): 0 when there is none
position(flags, name) == position_from(flags, name, 1)

\* Vec::remove(i)
remove(s, i) == SubSeq(s, 1, i - 1) \o SubSeq(s, i + 1, Len(s))

\* Vec::pop: the vector without its last element
pop(s) == SubSeq(s, 1, Len(s) - 1)

\* Block::get_flag: name is a flag name, or None for any flag
get_flag(b, name) ==
    IF name # None
    THEN LET i == position(b.flags, name)
         IN  IF i = 0
             THEN [blk |-> b, flag |-> DefaultTag, some |-> FALSE]
             ELSE [blk |-> [b EXCEPT !.flags = remove(@, i)],
                   flag |-> b.flags[i],
                   some |-> TRUE]
    ELSE IF b.flags = << >>
         THEN [blk |-> b, flag |-> DefaultTag, some |-> FALSE]
         ELSE [blk |-> [b EXCEPT !.flags = pop(@)],
               flag |-> b.flags[Len(b.flags)],
               some |-> TRUE]

\* The variant name create_var_ref reports.
variant_name(v) ==
    CASE v = "Ident" -> "identifier"
      [] v = "Num"   -> "number"
      [] v = "Expr"  -> "expression"
      [] v = "Var"   -> "variable"
      [] v = "Pound" -> "special-literal"

\* Block::create_var_ref that defers without pushing the change: a mutant.
create_var_ref_nopush(b, lgraph, arg, ty) ==
    IF arg.variant = "Var"
    THEN IF b.next # 0
         THEN LET r == new_var(lgraph, b.next, arg.tag.str, ty)
              IN  IF r.tag = Ok
                  THEN [blk |-> b, err |-> DefaultError, tag |-> Ok, var |-> r.var]
                  ELSE [blk |-> b,
                        err |-> update_locals_graph(arg.tag),
                        tag |-> Err,
                        var |-> NoVariable]
         ELSE [blk |-> b,
               err |-> DefaultError,
               tag |-> Ok,
               var |-> Variable(arg.tag.str, ty, TRUE)]
    ELSE [blk |-> b,
          err |-> unexp_arg_variant(arg.tag, variant_name(arg.variant)),
          tag |-> Err,
          var |-> NoVariable]

\* Block::create_var_ref that declares in the block's own locals: a mutant.
create_var_ref_own_scope(b, lgraph, arg, ty) ==
    IF arg.variant = "Var"
    THEN IF b.next # 0
         THEN LET r == new_var(lgraph, b.node, arg.tag.str, ty)
              IN  IF r.tag = Ok
                  THEN [blk |-> b, err |-> DefaultError, tag |-> Ok, var |-> r.var]
                  ELSE [blk |-> [b EXCEPT !.chgs = Append(@, r.chg)],
                        err |-> update_locals_graph(arg.tag),
                        tag |-> Err,
                        var |-> NoVariable]
         ELSE [blk |-> b,
               err |-> DefaultError,
               tag |-> Ok,
               var |-> Variable(arg.tag.str, ty, TRUE)]
    ELSE [blk |-> b,
          err |-> unexp_arg_variant(arg.tag, variant_name(arg.variant)),
          tag |-> Err,
          var |-> NoVariable]

\* Block::create_var_ref, with the block's view of the locals graph
create_var_ref(b, lgraph, arg, ty) ==
    IF arg.variant = "Var"
    THEN IF b.next # 0
         THEN LET r == new_var(lgraph, b.next, arg.tag.str, ty)
              IN  IF r.tag = Ok
                  THEN [blk |-> b, err |-> DefaultError, tag |-> Ok, var |-> r.var]
                  ELSE [blk |-> [b EXCEPT !.chgs = Append(@, r.chg)],
                        err |-> update_locals_graph(arg.tag),
                        tag |-> Err,
                        var |-> NoVariable]
         ELSE [blk |-> b,
               err |-> DefaultError,
               tag |-> Ok,
               var |-> Variable(arg.tag.str, ty, TRUE)]
    ELSE [blk |-> b,
          err |-> unexp_arg_variant(arg.tag, variant_name(arg.variant)),
          tag |-> Err,
          var |-> NoVariable]

RECURSIVE arg_tags(_)
\* self.args.iter().map(|a| self.ag[a.idx()].tag())
arg_tags(args) ==
    IF args = << >> THEN << >> ELSE << args[1].tag >> \o arg_tags(Tail(args))

\* Block::finalise
finalise(b, out_ty) ==
    IF b.flags # << >> THEN [err |-> unused_flags(b.flags), tag |-> Err]
    ELSE IF b.args # << >> THEN [err |-> unused_args(arg_tags(b.args)), tag |-> Err]
    ELSE IF debug /\ b.output_ty # None /\ b.output_ty # out_ty
         THEN [err |-> DefaultError, tag |-> Panic]
         ELSE [err |-> DefaultError, tag |-> Ok]

\* Block::eval that finalises flags only: a mutant.
eval_flags_only(b, out_ty) ==
    IF b.flags # << >>
    THEN [err |-> unused_flags(b.flags), out_ty |-> None, tag |-> Err]
    ELSE [err |-> DefaultError, out_ty |-> out_ty, tag |-> Ok]

\* Block::eval (and eval_o, which passes O::as_type() to it): Result<Step>,
\* the Step given by its out_ty
eval(b, out_ty) ==
    LET f == finalise(b, out_ty)
    IN  IF f.tag = Ok
        THEN [err |-> DefaultError, out_ty |-> out_ty, tag |-> Ok]
        ELSE [err |-> f.err, out_ty |-> None, tag |-> f.tag]

\* Block::next_arg (the argument builder of the popped node): the next
\* argument in source order, insufficient_args when none is left.
next_arg(b) ==
    IF b.args = << >>
    THEN [arg |-> ArgNode("Num", DefaultTag, None),
          blk |-> b,
          err |-> insufficient_args(b.op_tag, b.args_count, None),
          tag |-> Err]
    ELSE [arg |-> b.args[Len(b.args)],
          blk |-> [b EXCEPT !.args = pop(@), !.args_count = @ + 1],
          err |-> DefaultError,
          tag |-> Ok]

----------------------------------------------------------------------------
(* lang/impls/intrinsics/pipeline.rs: the intrinsics, each from a Block to *)
(* a Result<Step>.  The value returned is the record                       *)
(*   tag, err       Ok, Err(err) or Panic                                  *)
(*   out_ty         the Step's output type                                 *)
(*   chgs           the changes the Block buffered before it returned      *)
(*   bindings       the (variable, expression) pairs the Step binds        *)
(*   trailing       the variable the Step binds the input to               *)
(*   arg            the argument the Step resolves                         *)

\* let x = v in F(x), with v evaluated once.
With(v, F(_)) == CHOOSE y \in { F(x) : x \in {v} } : TRUE

\* No argument captured by the Step.
NoArg == ArgNode(None, DefaultTag, None)

Fail(b, e) ==
    [arg |-> NoArg,
     bindings |-> << >>,
     chgs |-> b.chgs,
     err |-> e,
     out_ty |-> None,
     tag |-> Err,
     trailing |-> NoVariable]

Panicked(b) ==
    [arg |-> NoArg,
     bindings |-> << >>,
     chgs |-> b.chgs,
     err |-> DefaultError,
     out_ty |-> None,
     tag |-> Panic,
     trailing |-> NoVariable]

\* The value of an intrinsic that ends in blk.eval(out_ty, ..).
Evald(b, out_ty, bindings) ==
    With(eval(b, out_ty), LAMBDA r :
        [arg |-> NoArg,
         bindings |-> IF r.tag = Ok THEN bindings ELSE << >>,
         chgs |-> b.chgs,
         err |-> r.err,
         out_ty |-> r.out_ty,
         tag |-> r.tag,
         trailing |-> NoVariable])

\* ArgBuilder::concrete: an argument whose output type is not known yet is
\* the soft unknown_arg_output_type.
concrete(arg) ==
    IF arg.out_ty = None
    THEN [err |-> unknown_arg_output_type(arg.tag), tag |-> Err]
    ELSE [err |-> DefaultError, tag |-> Ok]

\* ArgBuilder::returns(ty): a known output type other than ty is refused.
returns(arg, ty) ==
    IF arg.out_ty \notin {None, ty}
    THEN [err |-> unexp_arg_output_ty(ty, arg.out_ty, arg.tag), tag |-> Err]
    ELSE [err |-> DefaultError, tag |-> Ok]

\* type_flag: the type a flag names, none without flags.
type_flag(b) ==
    With(get_flag(b, None), LAMBDA f :
        IF ~f.some THEN [blk |-> b, err |-> DefaultError, tag |-> Ok, ty |-> None]
        ELSE IF f.flag.str \in Types
             THEN [blk |-> f.blk, err |-> DefaultError, tag |-> Ok, ty |-> f.flag.str]
             ELSE [blk |-> f.blk, err |-> type_not_found(f.flag), tag |-> Err, ty |-> None])

\* The match on args_len of get_tabrow_intrinsic, after the column argument;
\* blk_tag is the tag of the whole block.
get_type(b, known_out, blk_tag) ==
    IF args_len(b) = 1
    THEN With(next_arg(b), LAMBDA d :
             IF concrete(d.arg).tag = Err
             THEN Fail(d.blk, concrete(d.arg).err)
             ELSE Evald(d.blk, d.arg.out_ty, << >>))
    ELSE With(type_flag(b), LAMBDA t :
             IF t.tag = Err THEN Fail(t.blk, t.err)
             ELSE IF t.ty # None THEN Evald(t.blk, t.ty, << >>)
             ELSE IF known_out # None THEN Evald(t.blk, known_out, << >>)
             ELSE Fail(t.blk, unknown_blk_output_type(blk_tag)))

\* get_tabrow_intrinsic; known_out is blk.output_ty(), the output type the
\* type graph already holds for the block.
get_tabrow_intrinsic(b, known_out) ==
    With(next_arg(b), LAMBDA a :
        IF a.tag = Err THEN Fail(a.blk, a.err)
        ELSE IF returns(a.arg, "Str").tag = Err
             THEN Fail(a.blk, returns(a.arg, "Str").err)
        ELSE IF concrete(a.arg).tag = Err THEN Fail(a.blk, concrete(a.arg).err)
        ELSE get_type(a.blk, known_out, b.op_tag))

\* FieldAccessor::construct on a type that is no user definition
FieldAccessor_construct(ty, err_tag) ==
    [err |-> wrong_op_input_type(ty, err_tag), tag |-> Err]

\* get_intrinsic
get_intrinsic(b) ==
    With(next_arg(b), LAMBDA a :
        IF a.tag = Err THEN Fail(a.blk, a.err)
        ELSE IF concrete(a.arg).tag = Err THEN Fail(a.blk, concrete(a.arg).err)
        ELSE Fail(a.blk, FieldAccessor_construct(a.blk.in_ty, a.blk.op_tag).err))

\* An intrinsic that asserts the output type ty and evaluates to it: the
\* tail of in, len_str and to-str.
assert_then_eval(b, ty) ==
    With(assert_output(b, ty), LAMBDA o :
        IF o.tag = Panic THEN Panicked(o.blk) ELSE Evald(o.blk, ty, << >>))

\* in_intrinsic
in_intrinsic(b) ==
    With(next_arg(b), LAMBDA a :
        IF a.tag = Err THEN Fail(a.blk, a.err)
        ELSE IF concrete(a.arg).tag = Err THEN Fail(a.blk, concrete(a.arg).err)
        ELSE With(assert_then_eval(a.blk, a.arg.out_ty), LAMBDA r :
                 [r EXCEPT !.arg = IF r.tag = Ok THEN a.arg ELSE @]))

\* len_str_intrinsic
len_str_intrinsic(b) == assert_then_eval(b, "Num")

\* len_table_intrinsic
len_table_intrinsic(b) ==
    With(assert_output(b, "Num"), LAMBDA o :
        IF o.tag = Panic THEN Panicked(o.blk)
        ELSE With(get_flag(o.blk, "cols"), LAMBDA cols :
                 Evald(cols.blk, "Num", << >>)))

\* to_str_bool_intrinsic, to_str_str_intrinsic and to_str_intrinsic
to_str_intrinsic(b) == assert_then_eval(b, "Str")

\* The format argument of to_str_num_intrinsic: a Str.
to_str_num_fmt(b) ==
    With(next_arg(b), LAMBDA a :
        IF returns(a.arg, "Str").tag = Err
        THEN Fail(a.blk, returns(a.arg, "Str").err)
        ELSE IF concrete(a.arg).tag = Err THEN Fail(a.blk, concrete(a.arg).err)
        ELSE Evald(a.blk, "Str", << >>))

\* to_str_num_intrinsic
to_str_num_intrinsic(b) ==
    With(assert_output(b, "Str"), LAMBDA o :
        IF o.tag = Panic THEN Panicked(o.blk)
        ELSE IF args_len(o.blk) = 0 THEN Evald(o.blk, "Str", << >>)
        ELSE to_str_num_fmt(o.blk))

\* The hint of let_intrinsic: set when the last argument in source order
\* (the bottom of the stack) is an expression.
forgotten_pipe(b) ==
    IF b.args # << >> /\ b.args[1].variant = "Expr"
    THEN << "maybe you forgot a pipe: '", b.op_tag.str, "| ", b.args[1].tag.str, "'?" >>
    ELSE NoStr

\* The map_err of let_intrinsic: the hint joins the error's help message.
amend_help(e, hint) ==
    [e EXCEPT !.help_msg =
        IF hint = NoStr THEN @
        ELSE IF @ = NoStr THEN hint
        ELSE @ \o << "\n    help: " >> \o hint]

BindErr(b, e) == [bindings |-> << >>, blk |-> b, err |-> e, tag |-> Err]

RECURSIVE build_bindings(_, _)
\* build_bindings of let_intrinsic: (expression, variable) pairs while more
\* than one argument is left
build_bindings(b, lgraph) ==
    IF args_len(b) > 1
    THEN With(next_arg(b), LAMBDA e :
         IF concrete(e.arg).tag = Err THEN BindErr(e.blk, concrete(e.arg).err)
         ELSE With(next_arg(e.blk), LAMBDA n :
              With(create_var_ref(n.blk, lgraph, n.arg, e.arg.out_ty), LAMBDA v :
                  IF v.tag = Err THEN BindErr(v.blk, v.err)
                  ELSE With(build_bindings(v.blk, lgraph), LAMBDA rest :
                           IF rest.tag = Err THEN rest
                           ELSE [rest EXCEPT !.bindings =
                                       << [arg |-> e.arg, var |-> v.var] >> \o @]))))
    ELSE [bindings |-> << >>, blk |-> b, err |-> DefaultError, tag |-> Ok]

\* let_intrinsic without its trailing binding: a mutant.
let_trailing_none(b, lgraph, bindings) == Evald(b, b.in_ty, bindings)

\* The trailing binding of let_intrinsic and its eval.
let_trailing(b, lgraph, bindings) ==
    IF args_len(b) > 0
    THEN With(next_arg(b), LAMBDA n :
         With(create_var_ref(n.blk, lgraph, n.arg, b.in_ty), LAMBDA v :
             IF v.tag = Err THEN Fail(v.blk, v.err)
             ELSE With(Evald(v.blk, b.in_ty, bindings), LAMBDA r :
                      [r EXCEPT !.trailing = IF r.tag = Ok THEN v.var ELSE @])))
    ELSE Evald(b, b.in_ty, bindings)

\* let_intrinsic
let_intrinsic(b, lgraph) ==
    With(assert_output(b, b.in_ty), LAMBDA o :
        IF o.tag = Panic THEN Panicked(o.blk)
        ELSE With(build_bindings(o.blk, lgraph), LAMBDA bb :
                 IF bb.tag = Err THEN Fail(bb.blk, amend_help(bb.err, forgotten_pipe(b)))
                 ELSE let_trailing(bb.blk, lgraph, bb.bindings)))

----------------------------------------------------------------------------
(* The type graph and the locals graph of a pipeline of Op nodes 1..N.     *)
(*   tg[n]   the known input and output type of node n (None: unknown)     *)
(*   lg      the bindings declared so far, each at its scope node          *)

\* The Type error of the consistency rule: it carries both tags.
type_conflict(node_tag, known, ty) ==
    [cat |-> "Type",
     desc |-> << "conflicting types: ", known, " and ", ty >>,
     hard |-> TRUE,
     help_msg |-> NoStr,
     traces |-> << trace(node_tag, << "known as ", known >>),
                   trace(node_tag, << "asserted as ", ty >>) >>]

\* TypeGraph::apply that overwrites what it holds: a mutant.
apply_tg_overwrite(tgraph, c, node_tag) ==
    IF tgraph[c.node].output = c.ty
    THEN [err |-> DefaultError, res |-> "Redundant", tg |-> tgraph]
    ELSE [err |-> DefaultError,
          res |-> "Applied",
          tg |-> [tgraph EXCEPT ![c.node].output = c.ty]]

\* TypeGraph::apply of KnownOutput(n, ty): the output of n flows into the
\* input of the node after it.
apply_tg(tgraph, c, node_tag) ==
    LET known == tgraph[c.node].output
    IN  IF known = None
        THEN [err |-> DefaultError,
              res |-> "Applied",
              tg |-> [m \in DOMAIN tgraph |->
                        IF m = c.node THEN [tgraph[m] EXCEPT !.output = c.ty]
                        ELSE IF m = c.node + 1 THEN [tgraph[m] EXCEPT !.input = c.ty]
                        ELSE tgraph[m]]]
        ELSE IF known = c.ty
        THEN [err |-> DefaultError, res |-> "Redundant", tg |-> tgraph]
        ELSE [err |-> type_conflict(node_tag, known, c.ty),
              res |-> "Rejected",
              tg |-> tgraph]

\* LocalsGraph::apply of a pending new_var: the binding of the name at the
\* scope node, overriding an earlier one.
apply_lg(lgraph, c) ==
    LET b == [name |-> c.name, node |-> c.node, ty |-> c.ty]
    IN  IF b \in lgraph THEN [lg |-> lgraph, res |-> "Redundant"]
        ELSE [lg |-> {x \in lgraph : ~(x.name = c.name /\ x.node = c.node)} \cup {b},
              res |-> "Applied"]

\* The graphs while a change buffer is drained into them.
Graphs(tgraph, lgraph) ==
    [applied |-> FALSE,
     conflict |-> FALSE,
     err |-> DefaultError,
     lg |-> lgraph,
     tg |-> tgraph]

\* One change applied to the graphs g being drained.
apply_chg(g, c, agr) ==
    IF c.chg = "KnownOutput"
    THEN With(apply_tg(g.tg, c, agr[c.node].op_tag), LAMBDA r :
             IF r.res = "Rejected"
             THEN [g EXCEPT !.conflict = TRUE, !.err = r.err]
             ELSE [g EXCEPT !.applied = @ \/ r.res = "Applied", !.tg = r.tg])
    ELSE With(apply_lg(g.lg, c), LAMBDA r :
             [g EXCEPT !.applied = @ \/ r.res = "Applied", !.lg = r.lg])

RECURSIVE drain(_, _, _, _)
\* Drain chgs[i..] in order; the first rejected change stops the drain.
drain(g, chgs, i, agr) ==
    IF i > Len(chgs) THEN g
    ELSE With(apply_chg(g, chgs[i], agr), LAMBDA h :
             IF h.conflict THEN h ELSE drain(h, chgs, i + 1, agr))

----------------------------------------------------------------------------
(* Compilation of one Op node.                                             *)

RECURSIVE impl_from(_, _, _)
impl_from(op, ty, i) ==
    IF i > Len(Impls) THEN 0
    ELSE IF Impls[i] = [op |-> op, ty |-> ty] THEN i ELSE impl_from(op, ty, i + 1)

\* Resolution that asks for the untyped implementation first.
resolve_untyped_first(op, ty) ==
    IF impl_from(op, None, 1) # 0 THEN impl_from(op, None, 1) ELSE impl_from(op, ty, 1)

\* Overload resolution: the exact (op, T) implementation, else (op, None),
\* else none (0).
resolve(op, ty) ==
    IF impl_from(op, ty, 1) # 0 THEN impl_from(op, ty, 1) ELSE impl_from(op, None, 1)

Reverse(s) == [i \in 1..Len(s) |-> s[Len(s) + 1 - i]]

\* The Block the compiler hands to the implementation of node n.
block_of(agr, tgraph, n) ==
    NewBlock(n, IF n < Len(agr) THEN n + 1 ELSE 0, tgraph[n].input,
             agr[n].op_tag, Reverse(agr[n].args), Reverse(agr[n].flags))

\* The implementation Impls[i] of op run on the Block b.
run_impl(i, b, lgraph, known_out) ==
    With(Impls[i], LAMBDA impl :
        CASE impl.op = "\\"  -> in_intrinsic(b)
          [] impl.op = "let" -> let_intrinsic(b, lgraph)
          [] impl.op = "len" -> IF impl.ty = "Str" THEN len_str_intrinsic(b)
                                ELSE len_table_intrinsic(b)
          [] impl.op = "get" -> IF impl.ty = "TabRow"
                                THEN get_tabrow_intrinsic(b, known_out)
                                ELSE get_intrinsic(b)
          [] impl.op = "to-str" -> IF impl.ty = "Num" THEN to_str_num_intrinsic(b)
                                   ELSE to_str_intrinsic(b)
          [] OTHER -> Fail(b, op_not_found(b.op_tag, b.in_ty, FALSE, Impls)))

\* The compile call of node n: resolve the implementation, run it.
compile(agr, tgraph, lgraph, n) ==
    With(block_of(agr, tgraph, n), LAMBDA b :
    With(resolve(b.op_tag.str, b.in_ty), LAMBDA i :
        IF i = 0 THEN Fail(b, op_not_found(b.op_tag, b.in_ty, FALSE, Impls))
        ELSE run_impl(i, b, lgraph, tgraph[n].output)))

----------------------------------------------------------------------------
(* Inputs the specifications enumerate.                                    *)

\* All sequences over S of length at most n.
SeqsUpTo(S, n) == UNION { [1..k -> S] : k \in 0..n }

\* Tags handed to the error constructors.
TagPool == { Tag("len", 0, 3), Tag("foo", 4, 7), Tag("x", 8, 10) }

\* Flags a block may carry.
FlagPool == { Tag("cols", 4, 10), Tag("foo", 11, 16) }

FlagNames == { "cols", "foo" }

VarX   == ArgNode("Var", Tag("x", 8, 10), None)
Num5   == ArgNode("Num", Tag("5", 4, 5), "Num")
IdentA == ArgNode("Ident", Tag("foo", 4, 7), "Str")
ExprN  == ArgNode("Expr", Tag("{ + 1 }", 4, 11), "Num")
PoundT == ArgNode("Pound", Tag("#t", 4, 6), "Bool")

\* Arguments a block's stack is filled with in SpecBlk.
StackArgs == { VarX, Num5 }

\* Argument nodes handed to create_var_ref: every variant an ArgNode can be.
ArgPool == { VarX, Num5, IdentA, ExprN, PoundT }

\* Types an implementation asserts or evaluates to in SpecBlk.
TySample == { "Num", "Str" }

\* Types create_var_ref is asked to declare a variable with in SpecBlk.
VarTySample == { "Num" }

OpTag == Tag("op", 0, 2)

----------------------------------------------------------------------------
(* Initial values of the variables a specification leaves alone.           *)

IdleErr == ctor = None /\ err = DefaultError

IdleBlk ==
    /\ blk = NewBlock(1, 0, "Nil", OpTag, << >>, << >>)
    /\ blg = {}
    /\ ret = [call |-> None]

IdleComp ==
    /\ ag = << >> /\ root_ty = "Nil" /\ tg = << >> /\ lg = {} /\ steps = << >>
    /\ pc = "idle" /\ pass = 0 /\ cur = 0 /\ changed = FALSE /\ pend = DefaultError
    /\ last = [node |-> 0] /\ result = [tag |-> None]
    /\ pass_tg = << >> /\ pass_lg = {}

\* A Value: its type and, for a Num, the number.
Value(ty, v) == [ty |-> ty, value |-> v]
NoValue == Value(None, 0)

\* The names an Environment has a slot for.
VarNames == { "x", "y", "z" }

NoOutcome == [err |-> DefaultError, tag |-> None, value |-> NoValue]

IdleEval ==
    /\ carried = NoValue
    /\ env = [v \in VarNames |-> NoValue]
    /\ at = 0 /\ invoked = << >> /\ events = << >>
    /\ outcome = NoOutcome

IdleBat ==
    /\ source = << >>
    /\ batch = [fail_fast |-> FALSE, items |-> << >>, parallelise |-> FALSE]
    /\ outcomes = << >> /\ started = {} /\ inflight = {}
    /\ failed = FALSE /\ phase = "idle" /\ run = 0 /\ first_outcomes = << >>

----------------------------------------------------------------------------
(* SpecErr: every error constructor applied to enumerated inputs.          *)

InitErr == IdleErr /\ debug = FALSE /\ IdleBlk /\ IdleComp /\ IdleBat /\ IdleEval

Made(name, e) ==
    /\ ctor' = name
    /\ err' = e
    /\ UNCHANGED <<debug, blkVars, compVars, batVars, evalVars>>

MkOpNotFound ==
    \E op \in TagPool, inty \in Types \cup {None}, rec \in BOOLEAN :
        Made("op_not_found", op_not_found(op, inty, rec, Impls))

MkInsufficientArgs ==
    \E t \in TagPool, n \in 0..MaxArgs, sig \in {None, "foo"} :
        Made("insufficient_args", insufficient_args(t, n, sig))

MkUnusedFlags ==
    \E fs \in SeqsUpTo(FlagPool, MaxFlags) : Made("unused_flags", unused_flags(fs))

MkUnusedArgs ==
    \E ts \in SeqsUpTo(TagPool, MaxArgs) : Made("unused_args", unused_args(ts))

MkUnexpArgVariant ==
    \E a \in ArgPool :
        Made("unexp_arg_variant", unexp_arg_variant(a.tag, variant_name(a.variant)))

MkTypeNotFound == \E t \in TagPool : Made("type_not_found", type_not_found(t))

MkWrongOpInputType ==
    \E ty \in Types, op \in TagPool :
        Made("wrong_op_input_type", wrong_op_input_type(ty, op))

MkInferenceDepth == Made("inference_depth", inference_depth)

MkUnknownBlkOutputType ==
    \E t \in TagPool : Made("unknown_blk_output_type", unknown_blk_output_type(t))

MkUnknownArgInputType ==
    \E t \in TagPool : Made("unknown_arg_input_type", unknown_arg_input_type(t))

MkUnknownArgOutputType ==
    \E t \in TagPool : Made("unknown_arg_output_type", unknown_arg_output_type(t))

MkUpdateLocalsGraph ==
    \E t \in TagPool : Made("update_locals_graph", update_locals_graph(t))

MkAgInitEndlessLoop ==
    \E n \in 0..MaxArgs, t \in TagPool :
        Made("ag_init_endless_loop", ag_init_endless_loop(n, t))

MkIncompleteExprCompilation ==
    \E t \in TagPool :
        Made("incomplete_expr_compilation", incomplete_expr_compilation(t))

MkUnexpCodeInjectionOutputTy ==
    \E ty \in Types, exp \in Types, t \in TagPool :
        Made("unexp_code_injection_output_ty",
             unexp_code_injection_output_ty(ty, exp, t))

\* #[derive(Default)]: Error::default() as a value of its own.
MkDefault == Made("default", DefaultError)

\* Most traces an error collects.
MaxTraces == 3

\* An error that was built is passed through wrap_code_injection.
WrapCodeInjection ==
    /\ ctor # None
    /\ Len(err.traces) < MaxTraces
    /\ \E t \in TagPool : Made("wrap_code_injection", wrap_code_injection(err, t))

NextErr ==
    \/ MkOpNotFound
    \/ MkInsufficientArgs
    \/ MkUnusedFlags
    \/ MkUnusedArgs
    \/ MkUnexpArgVariant
    \/ MkTypeNotFound
    \/ MkWrongOpInputType
    \/ MkInferenceDepth
    \/ MkUnknownBlkOutputType
    \/ MkUnknownArgInputType
    \/ MkUnknownArgOutputType
    \/ MkUpdateLocalsGraph
    \/ MkAgInitEndlessLoop
    \/ MkIncompleteExprCompilation
    \/ MkUnexpCodeInjectionOutputTy
    \/ MkDefault
    \/ WrapCodeInjection

SpecErr == InitErr /\ [][NextErr]_vars

----------------------------------------------------------------------------
(* SpecBlk: one Block of a two-block expression (next = 2) or of a         *)
(* one-block expression (next = 0), driven through its API.                *)

\* What the last API call returned: the call, its inputs (in_name, in_ty,
\* in_arg) and its return value.
Ret(call, tag, e) ==
    [arg |-> Num5,
     call |-> call,
     err |-> e,
     flag |-> DefaultTag,
     in_name |-> None,
     in_ty |-> None,
     out_ty |-> None,
     some |-> FALSE,
     tag |-> tag,
     var |-> NoVariable]

InitBlk ==
    /\ IdleErr /\ IdleComp /\ IdleBat /\ IdleEval
    /\ debug \in BOOLEAN
    /\ \E args \in SeqsUpTo(StackArgs, MaxArgs), flags \in SeqsUpTo(FlagPool, MaxFlags),
          nxt \in {0, 2} :
           /\ blk = NewBlock(1, nxt, "Num", OpTag, args, flags)
           \* the locals of the following block: empty, or already holding $x
           /\ blg \in IF nxt = 0 THEN { {} }
                      ELSE { {}, { [name |-> "x", node |-> nxt, ty |-> "Num"] } }
    /\ ret = [call |-> None]

BlkFrame == UNCHANGED <<errVars, debug, blg, compVars, batVars, evalVars>>

BlkGetFlag ==
    \E name \in FlagNames \cup {None} :
        LET r == get_flag(blk, name)
        IN  /\ blk.live
            /\ blk' = r.blk
            /\ ret' = [Ret("get_flag", Ok, DefaultError) EXCEPT
                          !.some = r.some, !.flag = r.flag, !.in_name = name]
            /\ BlkFrame

BlkNextArg ==
    LET r == next_arg(blk)
    IN  /\ blk.live
        /\ blk' = r.blk
        /\ ret' = [Ret("next_arg", r.tag, r.err) EXCEPT !.arg = r.arg]
        /\ BlkFrame

BlkAssertOutput ==
    \E ty \in TySample :
        LET r == assert_output(blk, ty)
        IN  /\ blk.live
            /\ Len(blk.chgs) < MaxChgs
            /\ blk' = r.blk
            /\ ret' = [Ret("assert_output", r.tag, DefaultError) EXCEPT !.in_ty = ty]
            /\ BlkFrame

BlkCreateVarRef ==
    \E arg \in ArgPool, ty \in VarTySample :
        LET r == create_var_ref(blk, blg, arg, ty)
        IN  /\ blk.live
            /\ Len(blk.chgs) < MaxChgs
            /\ blk' = r.blk
            /\ ret' = [Ret("create_var_ref", r.tag, r.err) EXCEPT
                          !.var = r.var, !.arg = arg, !.in_ty = ty]
            /\ BlkFrame

\* eval consumes the block.  Every implementation evaluates to the type it
\* asserted (blk.rs 40, 158-159): out_ty is drawn accordingly.
BlkEval ==
    \E out_ty \in TySample :
        LET r == eval(blk, out_ty)
        IN  /\ blk.live
            /\ blk.output_ty \in {None, out_ty}
            /\ blk' = [blk EXCEPT !.live = FALSE]
            /\ ret' = [Ret("eval", r.tag, r.err) EXCEPT
                          !.out_ty = r.out_ty, !.in_ty = out_ty]
            /\ BlkFrame

NextBlk ==
    \/ BlkGetFlag
    \/ BlkNextArg
    \/ BlkAssertOutput
    \/ BlkCreateVarRef
    \/ BlkEval

SpecBlk == InitBlk /\ [][NextBlk]_vars

----------------------------------------------------------------------------
(* Claims about the Block API and the error constructors.                  *)

C2_UnusedArgsIsHard ==
    (ret.call = "eval" /\ blk.flags = << >> /\ blk.args # << >>) =>
        (ret.tag = Err /\ ret.err.hard)

\* C3: op_not_found, wrong_op_input_type, unused_flags, insufficient_args,
\* unexp_arg_variant, type_not_found and inference_depth return hard = TRUE
\* for every input; unknown_blk_output_type, unknown_arg_input_type,
\* unknown_arg_output_type and update_locals_graph return hard = FALSE.
C3_HardKinds ==
    /\ ctor \in { "op_not_found", "wrong_op_input_type", "unused_flags",
                  "insufficient_args", "unexp_arg_variant", "type_not_found",
                  "inference_depth" } => err.hard
    /\ ctor \in { "unknown_blk_output_type", "unknown_arg_input_type",
                  "unknown_arg_output_type", "update_locals_graph" } => ~err.hard

\* C3 witness: wrong_op_input_type was called and the error it built is hard.
C3_Witness ==
    /\ ctor = "wrong_op_input_type" /\ err.hard
    /\ err.desc[4] = "TabRow"

\* The bug-report link and the backtrace of internal_err_help.
BugReportLink == "this is an internal bug, please report it at <https://github.com/kdr-aus/ogma/issues>"
Backtrace == "Please supply this BACKTRACE:"

\* C22: every error the error substrate produces with category Internal,
\* the errors passed through wrap_code_injection and the values built from
\* Error::default() included, has a help message that holds the bug-report
\* link and a backtrace.
C22_InternalHasHelp ==
    (ctor # None /\ err.cat = "Internal") =>
        /\ err.help_msg # NoStr
        /\ \E i \in DOMAIN err.help_msg : err.help_msg[i] = BugReportLink
        /\ \E i \in DOMAIN err.help_msg : err.help_msg[i] = Backtrace

----------------------------------------------------------------------------
(* SpecComp: the inference loop compiling a pipeline of Op nodes.  Passes  *)
(* visit the nodes in order; a node is compiled once its input type is     *)
(* known; the changes a compile call buffered are drained as it returns.   *)

\* Largest number of Op nodes of a pipeline.
MaxOps == 2
\* The depth of the inference loop: the passes it is allowed.
InferenceDepth == 2

VarY == ArgNode("Var", Tag("y", 12, 14), None)
VarZ == ArgNode("Var", Tag("z", 16, 18), None)
\* An expression argument whose output type inference has not found.
ExprU == ArgNode("Expr", Tag("{ get c }", 4, 13), None)

\* An Op node: its tag, its arguments and flags in source order, and ann,
\* the output type the type graph holds for it before it is compiled.
OpNode(name, args, flags, ann) ==
    [ann |-> ann, args |-> args, flags |-> flags, op_tag |-> Tag(name, 0, 3)]

OpPool ==
    { OpNode("\\", << Num5 >>, << >>, None),
      OpNode("\\", << IdentA >>, << >>, None),
      OpNode("\\", << ExprU >>, << >>, None),
      OpNode("\\", << >>, << >>, None),
      OpNode("\\", << Num5 >>, << >>, "Str"),
      OpNode("let", << VarX >>, << >>, None),
      OpNode("let", << Num5, VarX, Num5, VarY >>, << >>, None),
      OpNode("let", << Num5, VarX, Num5, VarY, Num5, VarZ >>, << >>, None),
      OpNode("let", << Num5, VarX >>, << >>, "Str"),
      OpNode("let", << Num5, ExprN >>, << >>, None),
      OpNode("let", << ExprU, VarX >>, << >>, None),
      OpNode("len", << >>, << Tag("foo", 4, 9) >>, None),
      OpNode("get", << IdentA >>, << >>, None),
      OpNode("get", << IdentA >>, << >>, "Num"),
      OpNode("to-str", << >>, << >>, None) }

\* The input types of the outermost expression.
RootTys == { "Nil", "TabRow" }

Programs == UNION { [1..n -> OpPool] : n \in 1..MaxOps }

NoStep ==
    [arg |-> NoArg,
     bindings |-> << >>,
     compiled |-> FALSE,
     out_ty |-> None,
     trailing |-> NoVariable]

NoPending == [err |-> DefaultError, some |-> FALSE]

InitComp ==
    /\ IdleErr /\ IdleBlk /\ IdleBat /\ IdleEval
    /\ debug \in BOOLEAN
    /\ ag \in Programs
    /\ root_ty \in RootTys
    /\ tg = [n \in DOMAIN ag |->
               [input |-> IF n = 1 THEN root_ty ELSE ag[n - 1].ann,
                output |-> ag[n].ann]]
    /\ lg = {}
    /\ steps = [n \in DOMAIN ag |-> NoStep]
    /\ pc = "pass" /\ pass = 1 /\ cur = 1 /\ changed = FALSE
    /\ pend = NoPending
    /\ last = [chgs |-> << >>,
               err |-> DefaultError,
               node |-> 0,
               out_ty |-> None,
               pass |-> 0,
               tag |-> None]
    /\ result = [err |-> DefaultError, tag |-> None]
    /\ pass_tg = tg /\ pass_lg = lg

CompFrame == UNCHANGED <<errVars, debug, blkVars, batVars, evalVars, ag, root_ty>>

\* Node cur is pending and its input type is known.
Ready ==
    /\ pc = "pass" /\ cur <= Len(ag)
    /\ ~steps[cur].compiled /\ tg[cur].input # None

\* The compile call of node cur.
Cmp == compile(ag, tg, lg, cur)

\* What the loop keeps of the call that returned r.
Called(r) ==
    [chgs |-> r.chgs,
     err |-> r.err,
     node |-> cur,
     out_ty |-> r.out_ty,
     pass |-> pass,
     tag |-> r.tag]

\* A loop that aborts on a panic only: a mutant.
Aborts_on_panic_only(r) == r.tag = Panic

\* A hard error makes the loop abort; so does a panic.
Aborts(r) == r.tag = Panic \/ (r.tag = Err /\ r.err.hard)

\* The graphs after the changes of the call that returned r: on Ok the
\* Step's output type, then the buffer; on a soft error the buffer.
Drained(r) ==
    drain(Graphs(tg, lg),
          IF r.tag = Ok THEN << KnownOutput(cur, r.out_ty) >> \o r.chgs ELSE r.chgs,
          1, ag)

\* Step 3: Ok(step)
CompileOk ==
    /\ Ready
    /\ \E r \in {Cmp} : \E g \in {Drained(r)} :
        /\ r.tag = Ok /\ ~g.conflict
        /\ steps' = [steps EXCEPT ![cur] =
                        [arg |-> r.arg,
                         bindings |-> r.bindings,
                         compiled |-> TRUE,
                         out_ty |-> r.out_ty,
                         trailing |-> r.trailing]]
        /\ tg' = g.tg /\ lg' = g.lg
        /\ last' = Called(r)
    /\ changed' = TRUE
    /\ cur' = cur + 1
    /\ UNCHANGED <<pc, pass, pend, result, pass_tg, pass_lg>>
    /\ CompFrame

\* Step 4: Err(e) with e.hard
CompileHard ==
    /\ Ready
    /\ \E r \in {Cmp} :
        /\ Aborts(r)
        /\ result' = [err |-> r.err, tag |-> r.tag]
        /\ last' = Called(r)
    /\ pc' = "done"
    /\ UNCHANGED <<tg, lg, steps, pass, cur, changed, pend, pass_tg, pass_lg>>
    /\ CompFrame

\* Step 5: Err(e) with e.hard false
CompileSoft ==
    /\ Ready
    /\ \E r \in {Cmp} : \E g \in {Drained(r)} :
        /\ r.tag = Err /\ ~Aborts(r) /\ ~g.conflict
        /\ tg' = g.tg /\ lg' = g.lg
        /\ changed' = (changed \/ g.applied)
        /\ pend' = IF pend.some THEN pend ELSE [err |-> r.err, some |-> TRUE]
        /\ last' = Called(r)
    /\ cur' = cur + 1
    /\ UNCHANGED <<steps, pc, pass, result, pass_tg, pass_lg>>
    /\ CompFrame

\* A drained change the type graph rejects: its Type error ends compilation.
CompileConflict ==
    /\ Ready
    /\ \E r \in {Cmp} : \E g \in {Drained(r)} :
        /\ ~Aborts(r) /\ g.conflict
        /\ tg' = g.tg /\ lg' = g.lg
        /\ result' = [err |-> g.err, tag |-> Err]
        /\ last' = Called(r)
    /\ pc' = "done"
    /\ UNCHANGED <<steps, pass, cur, changed, pend, pass_tg, pass_lg>>
    /\ CompFrame

\* A node already compiled, or one whose input type is not known yet.
SkipBlock ==
    /\ pc = "pass" /\ cur <= Len(ag) /\ ~Ready
    /\ cur' = cur + 1
    /\ UNCHANGED <<tg, lg, steps, pc, pass, changed, pend, last, result, pass_tg, pass_lg>>
    /\ CompFrame

AllCompiled == \A n \in DOMAIN steps : steps[n].compiled

PassOver == pc = "pass" /\ cur = Len(ag) + 1

\* Step 6: all Op nodes are compiled
EndSuccess ==
    /\ PassOver /\ AllCompiled
    /\ pc' = "done"
    /\ result' = [err |-> DefaultError, tag |-> Ok]
    /\ UNCHANGED <<tg, lg, steps, pass, cur, changed, pend, last, pass_tg, pass_lg>>
    /\ CompFrame

\* Step 6: the pass produced no new knowledge
EndStall ==
    /\ PassOver /\ ~AllCompiled /\ ~changed
    /\ pc' = "done"
    /\ result' = [err |-> pend.err, tag |-> Err]
    /\ UNCHANGED <<tg, lg, steps, pass, cur, changed, pend, last, pass_tg, pass_lg>>
    /\ CompFrame

\* Step 6: the pass counter exceeds the depth
EndDepth ==
    /\ PassOver /\ ~AllCompiled /\ changed /\ pass >= InferenceDepth
    /\ pc' = "done"
    /\ result' = [err |-> inference_depth, tag |-> Err]
    /\ UNCHANGED <<tg, lg, steps, pass, cur, changed, pend, last, pass_tg, pass_lg>>
    /\ CompFrame

NextPass ==
    /\ PassOver /\ ~AllCompiled /\ changed /\ pass < InferenceDepth
    /\ pass' = pass + 1 /\ cur' = 1 /\ changed' = FALSE /\ pend' = NoPending
    /\ pass_tg' = tg /\ pass_lg' = lg
    /\ UNCHANGED <<tg, lg, steps, pc, last, result>>
    /\ CompFrame

NextComp ==
    \/ CompileOk
    \/ CompileHard
    \/ CompileSoft
    \/ CompileConflict
    \/ SkipBlock
    \/ EndSuccess
    \/ EndStall
    \/ EndDepth
    \/ NextPass

SpecComp == InitComp /\ [][NextComp]_vars

\* The loop is single-threaded and runs to its end.
FairSpecComp == SpecComp /\ WF_vars(NextComp)

----------------------------------------------------------------------------
(* Claims about the inference loop.                                        *)

\* The compile call the step made, when it made one.
CalledNow == last' # last

\* The changes the loop drains for the call l.
CallChgs(l) ==
    IF l.tag = Ok THEN << KnownOutput(l.node, l.out_ty) >> \o l.chgs
    ELSE IF l.tag = Err /\ ~l.err.hard THEN l.chgs
    ELSE << >>

\* The graphs hold the change c.
Holds(tgraph, lgraph, c) ==
    IF c.chg = "KnownOutput" THEN tgraph[c.node].output = c.ty
    ELSE [name |-> c.name, node |-> c.node, ty |-> c.ty] \in lgraph

\* Compilation ended in the Type error of a rejected change.
EndedInTypeError(p, r) == p = "done" /\ r.tag = Err /\ r.err.cat = "Type" /\ r.err.hard

\* C4: as soon as a compile call returns a hard error, compilation is over
\* and its result is exactly that error: the call's changes are not applied,
\* no Step is recorded, and once compilation is over no block is compiled
\* and no graph changes any more.
C4_HardErrorWins ==
    [][ /\ (CalledNow /\ last'.tag = Err /\ last'.err.hard) =>
              /\ pc' = "done"
              /\ result' = [err |-> last'.err, tag |-> Err]
              /\ UNCHANGED <<tg, lg, steps>>
        /\ pc = "done" => UNCHANGED <<tg, lg, steps, last, result>> ]_vars

\* A hard error ended compilation while another node was still pending
\* with a known input type.
C4_Witness ==
    /\ pc = "done" /\ result.tag = Err /\ result.err.hard /\ result.err = last.err
    /\ \E n \in DOMAIN steps :
          n # last.node /\ ~steps[n].compiled /\ tg[n].input # None

\* C5: a soft error is the result of compilation only at the end of a full
\* pass that changed neither graph, and the update_locals_graph error of
\* create_var_ref is never the result.
C5_SoftOnlyAtStall ==
    (pc = "done" /\ result.tag = Err /\ ~result.err.hard) =>
        /\ cur = Len(ag) + 1
        /\ tg = pass_tg /\ lg = pass_lg
        /\ \E n \in DOMAIN steps : ~steps[n].compiled
        /\ result.err.desc # update_locals_graph(DefaultTag).desc

\* A soft error surfaced on the second pass, after a first pass that had
\* applied the changes of the failing block.
C5_Witness ==
    /\ pc = "done" /\ result.tag = Err /\ ~result.err.hard
    /\ pass = 2 /\ last.chgs # << >>

\* The outcomes C6 lists.
EndsInSuccess == result.tag = Ok /\ \A n \in DOMAIN steps : steps[n].compiled
EndsInHardError == result.tag = Err /\ result.err.hard
EndsInDepthError ==
    /\ result.tag = Err /\ is_inference_depth_error(result.err)
    /\ result.err.cat = "Type" /\ result.err.hard
\* The outcome of a stall: the pending soft error, after a pass without change.
EndsInStallError ==
    /\ result.tag = Err /\ ~result.err.hard
    /\ cur = Len(ag) + 1 /\ tg = pass_tg /\ lg = pass_lg

\* C6, as the loop behaves: inference ends within InferenceDepth passes, in
\* success, a hard error, the inference_depth error, or, after a full pass
\* without new knowledge, the pending soft error.
C6_Terminates ==
    /\ <>(pc = "done")
    /\ [](pass <= InferenceDepth)
    /\ [](pc = "done" =>
            \/ EndsInSuccess
            \/ EndsInHardError
            \/ EndsInDepthError
            \/ EndsInStallError)

\* Inference gave up with the inference_depth error on its last pass.
C6_Witness == pc = "done" /\ EndsInDepthError /\ pass = InferenceDepth /\ changed

\* C6 as stated: inference ends, and in success, a hard error or the
\* inference_depth error.
C6_ThreeOutcomes ==
    /\ <>(pc = "done")
    /\ [](pc = "done" => (EndsInSuccess \/ EndsInHardError \/ EndsInDepthError))

\* C7: a known output type of a node never changes; a drained
\* KnownOutput(n, T') against a known T # T' ends compilation in a Type
\* error; a call whose changes the graphs all hold already changes neither.
C7_TypeMonotonicity ==
    [][ /\ \A n \in DOMAIN tg :
              tg[n].output # None =>
                  /\ tg'[n].output = tg[n].output
                  /\ CalledNow =>
                        \A i \in DOMAIN CallChgs(last') :
                            LET c == CallChgs(last')[i]
                            IN  (c.chg = "KnownOutput" /\ c.node = n
                                 /\ c.ty # tg[n].output)
                                    => EndedInTypeError(pc', result')
        /\ (CalledNow /\ \A i \in DOMAIN CallChgs(last') :
                            Holds(tg, lg, CallChgs(last')[i]))
              => UNCHANGED <<tg, lg>> ]_vars

\* A block asserted an output type other than the known one, compilation
\* ended in the Type error and the known type is still in the graph.
C7_Witness ==
    /\ EndedInTypeError(pc, result)
    /\ \E i \in DOMAIN last.chgs :
          /\ last.chgs[i].chg = "KnownOutput"
          /\ tg[last.chgs[i].node].output \notin {None, last.chgs[i].ty}

\* C8: when a compile call returns a soft error, every change it buffered
\* is in the graphs afterwards, unless the type graph rejected one with its
\* Type error; the output type let asserted first is among them; the node
\* has no Step and is still pending.
C8_KnowledgeKept ==
    [][ (CalledNow /\ last'.tag = Err /\ ~last'.err.hard) =>
            /\ ~steps'[last'.node].compiled
            /\ \/ EndedInTypeError(pc', result')
               \/ /\ \A i \in DOMAIN last'.chgs : Holds(tg', lg', last'.chgs[i])
                  /\ ag[last'.node].op_tag.str = "let" =>
                        tg'[last'.node].output = tg[last'.node].input
                  /\ pc' = "pass" ]_vars

\* let failed softly in create_var_ref: the output type it asserted and the
\* binding it asked for are in the graphs, the node has no Step.
C8_Witness ==
    /\ pc = "pass" /\ last.tag = Err /\ ~last.err.hard
    /\ last.err.desc = update_locals_graph(DefaultTag).desc
    /\ Len(last.chgs) = 2
    /\ \A i \in DOMAIN last.chgs : Holds(tg, lg, last.chgs[i])
    /\ ~steps[last.node].compiled

----------------------------------------------------------------------------
(* SpecBat: the batch driver.  parse_str turns the lines of a batch file   *)
(* into statements; process handles the definitions first, one by one,    *)
(* then the expressions, one by one or on a pool of workers, and returns  *)
(* one outcome per statement.  The batch is processed twice.              *)

\* Largest number of lines of a batch file.
MaxLines == 5
\* The workers of the pool.
Workers == 2

\* The lines of tests/batch-files.rs.
DefOk   == "def foo-bar () { in 5 }"
DefBad  == "def-ty Foo { x:Num y: }"
ExprOk  == "foo-bar | + 5"
ExprBad == "foo-bar | + 5 | - 'foo'"
Comment == "# This should fail"
Blank   == ""

LinePool == { DefOk, DefBad, ExprOk, ExprBad, Comment, Blank }

\* is_statement that takes a comment for a statement: a mutant.
is_statement_not_blank(line) == line # Blank

\* A line that starts with # is a comment, an empty one separates.
is_statement(line) == line \notin { Comment, Blank }

\* A statement that starts with def or def-ty is a definition.
is_definition(line) == line \in { DefOk, DefBad }

\* Outcome
Outstanding == [line |-> 0, tag |-> "Outstanding"]
Success == [line |-> 0, tag |-> "Success"]
Failed(l) == [line |-> l, tag |-> "Failed"]

\* Compiling and evaluating the statement of an item: the def-ty with the
\* missing type specifier and the expression subtracting a string fail,
\* with an error that points at the statement's line.
run_item(item) ==
    IF item.text \in { DefBad, ExprBad } THEN Failed(item.line) ELSE Success

RECURSIVE items_from(_, _)
items_from(src, l) ==
    IF l > Len(src) THEN << >>
    ELSE IF is_statement(src[l])
         THEN << [kind |-> IF is_definition(src[l]) THEN "Def" ELSE "Expr",
                  line |-> l,
                  text |-> src[l]] >> \o items_from(src, l + 1)
         ELSE items_from(src, l + 1)

\* parse_str: the statements of the source, in source order.
parse_str(src) == items_from(src, 1)

\* Batch files as they are written: statements end with a blank line,
\* comments stand before a statement.
WellFormed(src) ==
    /\ src[1] # Blank /\ ~(src[Len(src)] \in { Blank, Comment })
    /\ \A l \in 1..(Len(src) - 1) :
          /\ is_statement(src[l]) => src[l + 1] = Blank
          /\ src[l + 1] = Blank => is_statement(src[l])
          /\ src[l] = Comment => src[l + 1] # Comment

Sources ==
    { src \in UNION { [1..n -> LinePool] : n \in 1..MaxLines } : WellFormed(src) }

NoOutcomes(items) == [i \in DOMAIN items |-> Outstanding]

InitBat ==
    /\ IdleErr /\ debug = FALSE /\ IdleBlk /\ IdleComp /\ IdleEval
    /\ source \in Sources
    /\ \E p \in BOOLEAN, f \in BOOLEAN :
          batch = [fail_fast |-> f, items |-> parse_str(source), parallelise |-> p]
    /\ outcomes = NoOutcomes(parse_str(source))
    /\ started = {} /\ inflight = {} /\ failed = FALSE
    /\ phase = "defs" /\ run = 1 /\ first_outcomes = << >>

BatFrame == UNCHANGED <<errVars, debug, blkVars, compVars, evalVars, source>>

\* A loop that never cancels: a mutant.
Cancelled_never == FALSE

\* fail_fast after the first failure: nothing more is started.
Cancelled == batch.fail_fast /\ failed

\* The statements of a kind that have not started.
Waiting(kind) ==
    { i \in DOMAIN batch.items : batch.items[i].kind = kind /\ i \notin started }

Lowest(S) == CHOOSE i \in S : \A j \in S : i <= j

\* The next definition, in source order.
ProcessDef ==
    /\ phase = "defs" /\ Waiting("Def") # {} /\ ~Cancelled
    /\ \E i \in { Lowest(Waiting("Def")) } : \E o \in { run_item(batch.items[i]) } :
        /\ started' = started \cup {i}
        /\ outcomes' = [outcomes EXCEPT ![i] = o]
        /\ failed' = (failed \/ o.tag = "Failed")
    /\ UNCHANGED <<batch, inflight, phase, run, first_outcomes>>
    /\ BatFrame

DefsDone ==
    /\ phase = "defs" /\ (Waiting("Def") = {} \/ Cancelled)
    /\ phase' = "exprs"
    /\ UNCHANGED <<batch, outcomes, started, inflight, failed, run, first_outcomes>>
    /\ BatFrame

\* An expression starts: the next one in source order, or, with
\* parallelise, any that a free worker picks.
StartExpr ==
    /\ phase = "exprs" /\ ~Cancelled
    /\ Cardinality(inflight) < (IF batch.parallelise THEN Workers ELSE 1)
    /\ \E i \in Waiting("Expr") :
        /\ batch.parallelise \/ i = Lowest(Waiting("Expr"))
        /\ started' = started \cup {i}
        /\ inflight' = inflight \cup {i}
    /\ UNCHANGED <<batch, outcomes, failed, phase, run, first_outcomes>>
    /\ BatFrame

\* An expression in flight ends.
FinishExpr ==
    /\ phase = "exprs"
    /\ \E i \in inflight : \E o \in { run_item(batch.items[i]) } :
        /\ inflight' = inflight \ {i}
        /\ outcomes' = [outcomes EXCEPT ![i] = o]
        /\ failed' = (failed \/ o.tag = "Failed")
    /\ UNCHANGED <<batch, started, phase, run, first_outcomes>>
    /\ BatFrame

\* process returns outcomes.
ExprsDone ==
    /\ phase = "exprs" /\ inflight = {}
    /\ Waiting("Expr") = {} \/ Cancelled
    /\ phase' = "done"
    /\ UNCHANGED <<batch, outcomes, started, inflight, failed, run, first_outcomes>>
    /\ BatFrame

\* The same source is parsed and processed again, with the same options.
ProcessAgain ==
    /\ phase = "done" /\ run = 1
    /\ first_outcomes' = outcomes
    /\ batch' = [batch EXCEPT !.items = parse_str(source)]
    /\ outcomes' = NoOutcomes(parse_str(source))
    /\ started' = {} /\ inflight' = {} /\ failed' = FALSE
    /\ phase' = "defs" /\ run' = 2
    /\ BatFrame

NextBat ==
    \/ ProcessDef
    \/ DefsDone
    \/ StartExpr
    \/ FinishExpr
    \/ ExprsDone
    \/ ProcessAgain

SpecBat == InitBat /\ [][NextBat]_vars

----------------------------------------------------------------------------
(* Claims about the batch driver.                                          *)

\* C9: with fail_fast, once a statement has failed no statement starts any
\* more; a statement in flight stays in flight until it has its Success or
\* Failed; when process returns, nothing is in flight, the statements that
\* never started are Outstanding and those that started are not.
C9_FailFast ==
    /\ [][ (batch.fail_fast /\ run' = run) =>
              /\ failed => started' = started
              /\ \A i \in inflight :
                    \/ i \in inflight' /\ outcomes'[i] = Outstanding
                    \/ outcomes'[i] = run_item(batch.items[i]) ]_vars
    /\ [](phase = "done" /\ batch.fail_fast =>
            /\ inflight = {}
            /\ \A i \in DOMAIN outcomes :
                  outcomes[i] = Outstanding <=> i \notin started)

\* With fail_fast a statement has failed while another is in flight and a
\* third has not started.
C9_Witness ==
    /\ batch.fail_fast /\ failed /\ inflight # {}
    /\ \E j \in DOMAIN batch.items : j \notin started

\* The lines of the source that are statements.
StatementLines == { l \in DOMAIN source : source[l] \notin { Comment, Blank } }

\* process returned one outcome per statement of the source, the i-th for
\* the i-th statement.
OneOutcomePerStatement ==
    /\ Len(outcomes) = Cardinality(StatementLines)
    /\ \A i \in DOMAIN outcomes :
          /\ batch.items[i].line \in StatementLines
          /\ Cardinality({ l \in StatementLines : l < batch.items[i].line }) = i - 1
          /\ outcomes[i] \in { Outstanding, run_item(batch.items[i]) }
          /\ outcomes[i].tag = "Failed" => outcomes[i].line = batch.items[i].line

\* C10, as the driver behaves: process returns one outcome per statement,
\* the i-th for the i-th statement in source order, comments and blank
\* lines have none; processing the source again returns the same outcomes
\* unless parallelise and fail_fast are both set.
C10_OutcomeOrder ==
    phase = "done" =>
        /\ OneOutcomePerStatement
        /\ (run = 2 /\ ~(batch.parallelise /\ batch.fail_fast)) =>
              outcomes = first_outcomes

\* A source with a comment processed twice, one after the other with
\* fail_fast: both times the definition failed and the expression is
\* Outstanding.
C10_Witness ==
    /\ phase = "done" /\ run = 2 /\ batch.fail_fast /\ ~batch.parallelise
    /\ \E l \in DOMAIN source : source[l] = Comment
    /\ Len(outcomes) = 2
    /\ outcomes[1] = Outstanding /\ outcomes[2].tag = "Failed"
    /\ outcomes = first_outcomes

\* C10 as stated: processing the source again returns the same outcomes,
\* whatever parallelise and fail_fast are.
C10_SameOutcomesTwice ==
    phase = "done" =>
        /\ OneOutcomePerStatement
        /\ run = 2 => outcomes = first_outcomes

----------------------------------------------------------------------------
(* SpecFlg: get_flag on flag stacks that hold two flags of one name.       *)

\* Flags of a block, two of them named foo.
NamedFlags == FlagPool \cup { Tag("foo", 17, 22) }

InitFlg ==
    /\ IdleErr /\ IdleComp /\ IdleBat /\ IdleEval
    /\ debug = FALSE
    /\ \E args \in SeqsUpTo(StackArgs, 1), flags \in SeqsUpTo(NamedFlags, MaxFlags),
          chgs \in { << >>, << KnownOutput(1, "Num") >> } :
           blk = [NewBlock(1, 2, "Num", OpTag, args, flags) EXCEPT !.chgs = chgs]
    /\ blg = {}
    /\ ret = [call |-> None]

NextFlg == BlkGetFlag

SpecFlg == InitFlg /\ [][NextFlg]_vars

----------------------------------------------------------------------------
(* Claims about the calls of the Block API.                                *)

\* C13: create_var_ref on an Ident, Num, Expr or Pound argument returns the
\* hard unexp_arg_variant error that names the variant, and leaves the
\* block, its change buffer included, and the locals graph as they were.
C13_RejectsNonVar ==
    [][ (ret'.call = "create_var_ref" /\ ret'.arg.variant # "Var") =>
            /\ ret'.tag = Err /\ ret'.err.hard
            /\ ret'.err.desc =
                  << "not expecting argument variant '",
                     CASE ret'.arg.variant = "Ident" -> "identifier"
                       [] ret'.arg.variant = "Num" -> "number"
                       [] ret'.arg.variant = "Expr" -> "expression"
                       [] ret'.arg.variant = "Pound" -> "special-literal",
                     "'" >>
            /\ blk'.chgs = blk.chgs /\ blk' = blk
            /\ blg' = blg ]_vars

\* create_var_ref refused an expression argument on a block whose buffer
\* already held a change.
C13_Witness ==
    /\ ret.call = "create_var_ref" /\ ret.arg.variant = "Expr"
    /\ ret.tag = Err /\ ret.err.hard
    /\ ret.err.desc[2] = "expression"
    /\ blk.chgs # << >>

\* C14: create_var_ref on a Var argument never changes the locals graph
\* itself.  With a following block it asks for the variable in the locals
\* of that block: it returns the variable when they hold it, else it
\* appends exactly one pending change, for the following block, and returns
\* the soft update_locals_graph error.  On the last block it returns a
\* no-op variable and appends nothing.
C14_ScopesDownstream ==
    [][ (ret'.call = "create_var_ref" /\ ret'.arg.variant = "Var") =>
            LET name == ret'.arg.tag.str
                ty   == ret'.in_ty
            IN  /\ blg' = blg
                /\ blk' = [blk EXCEPT !.chgs = blk'.chgs]
                /\ IF blk.next = 0
                   THEN /\ ret'.tag = Ok /\ ret'.var = Variable(name, ty, TRUE)
                        /\ blk'.chgs = blk.chgs
                   ELSE IF [name |-> name, node |-> blk.next, ty |-> ty] \in blg
                   THEN /\ ret'.tag = Ok /\ ret'.var = Variable(name, ty, FALSE)
                        /\ blk'.chgs = blk.chgs
                   ELSE /\ ret'.tag = Err /\ ~ret'.err.hard
                        /\ ret'.err.desc = update_locals_graph(DefaultTag).desc
                        /\ blk'.chgs = Append(blk.chgs, NewVar(blk.next, name, ty))
                        /\ blk.next # blk.node ]_vars

\* The locals graph deferred: the pending change for the following block is
\* the last of the buffer and the error is soft.
C14_Witness ==
    /\ ret.call = "create_var_ref" /\ ret.arg.variant = "Var"
    /\ ret.tag = Err /\ ~ret.err.hard
    /\ blk.chgs # << >>
    /\ blk.chgs[Len(blk.chgs)] = NewVar(2, "x", "Num")
    /\ blg = {}

\* The type graph of a two-block expression before anything is known, and
\* what it knows once a change buffer is drained into it.
TwoOps == << OpNode("let", << >>, << >>, None), OpNode("len", << >>, << >>, None) >>
Known(chgs) ==
    drain(Graphs([n \in 1..2 |-> [input |-> None, output |-> None]], {}),
          chgs, 1, TwoOps)

\* C15: in a release build assert_output(T) returns without error, appends
\* KnownOutput(node, T) for the block's own node and touches neither stack;
\* a buffer in which it was called twice with T drains to the same
\* knowledge as the buffer of the first call, which is known_output = T
\* unless an earlier change of the buffer is refused.
C15_AssertOutputIdempotent ==
    /\ [][ (ret'.call = "assert_output" /\ ~debug) =>
              /\ ret'.tag = Ok
              /\ blk'.chgs = Append(blk.chgs, KnownOutput(blk.node, ret'.in_ty))
              /\ blk'.args = blk.args /\ blk'.flags = blk.flags ]_vars
    /\ []((/\ ~debug /\ ret.call = "assert_output" /\ Len(blk.chgs) >= 2
           /\ blk.chgs[Len(blk.chgs)] = blk.chgs[Len(blk.chgs) - 1])
            => /\ Known(blk.chgs) = Known(pop(blk.chgs))
               /\ ~Known(pop(blk.chgs)).conflict =>
                     Known(blk.chgs).tg[blk.node].output = ret.in_ty)

\* A release build asserted Str twice: both changes are buffered and the
\* type graph they drain to knows Str.
C15_Witness ==
    /\ ~debug /\ ret.call = "assert_output" /\ ret.tag = Ok
    /\ blk.chgs = << KnownOutput(1, "Str"), KnownOutput(1, "Str") >>
    /\ Known(blk.chgs).tg[1].output = "Str"

\* The flags without the one at index i.
Without(fl, i) == [j \in 1..(Len(fl) - 1) |-> IF j < i THEN fl[j] ELSE fl[j + 1]]

\* C16: get_flag changes nothing of the block but the flag stack.  With a
\* name it removes and returns the first flag of that name and keeps the
\* others in their order, or returns None and keeps the stack when no flag
\* has the name; without a name it removes and returns one flag of a
\* non-empty stack and returns None on an empty one.
C16_GetFlag ==
    [][ ret'.call = "get_flag" =>
            LET name == ret'.in_name
                fl   == blk.flags
                M    == { i \in DOMAIN fl : fl[i].str = name }
            IN  /\ blk' = [blk EXCEPT !.flags = blk'.flags]
                /\ name # None =>
                      IF M = {}
                      THEN ~ret'.some /\ blk'.flags = fl
                      ELSE LET i == CHOOSE k \in M : \A j \in M : k <= j
                           IN  /\ ret'.some /\ ret'.flag = fl[i]
                               /\ blk'.flags = Without(fl, i)
                /\ name = None =>
                      IF fl = << >>
                      THEN ~ret'.some /\ blk'.flags = fl
                      ELSE /\ ret'.some
                           /\ \E i \in DOMAIN fl :
                                 ret'.flag = fl[i] /\ blk'.flags = Without(fl, i) ]_vars

\* Of two flags named foo get_flag returned the first and left the second,
\* with the arguments and the buffered change in place.
C16_Witness ==
    /\ ret.call = "get_flag" /\ ret.in_name = "foo" /\ ret.some
    /\ ret.flag = Tag("foo", 11, 16)
    /\ blk.flags = << Tag("foo", 17, 22) >>
    /\ blk.args # << >> /\ blk.chgs # << >>

----------------------------------------------------------------------------
(* SpecOvl: overload resolution of an operation name on an input type.     *)

\* Names of operations: the registered ones and two that are not.
OpNames == { Impls[i].op : i \in DOMAIN Impls } \cup { "foo", "bar" }

\* Input types: the built-in ones and two user-defined ones.
InputTys == Types \cup { "Point", "Ord" }

NoImpl == [op |-> None, ty |-> None]

InitOvl ==
    /\ IdleErr /\ IdleBlk /\ IdleComp /\ IdleBat /\ IdleEval
    /\ debug = FALSE

\* The compiler looks up the implementation of op for input type ty.
Resolve ==
    /\ \E op \in OpNames, ty \in InputTys :
         \E i \in { resolve(op, ty) } :
            ret' = [call |-> "resolve",
                    err |-> IF i = 0 THEN op_not_found(Tag(op, 0, 3), ty, FALSE, Impls)
                            ELSE DefaultError,
                    impl |-> IF i = 0 THEN NoImpl ELSE Impls[i],
                    op |-> op,
                    tag |-> IF i = 0 THEN Err ELSE Ok,
                    ty |-> ty]
    /\ UNCHANGED <<errVars, debug, blk, blg, compVars, batVars, evalVars>>

NextOvl == Resolve

SpecOvl == InitOvl /\ [][NextOvl]_vars

\* The input types op is registered for, as the help of op_not_found names them.
RegisteredFor(op) == { tystr(Impls[i].ty) : i \in { j \in DOMAIN Impls : Impls[j].op = op } }

\* The resolution failed with the hard op_not_found error whose help lists
\* the input types the operation is registered for.
NotFound(r) ==
    /\ r.tag = Err /\ r.impl = NoImpl
    /\ r.err.hard /\ r.err.cat = "UnknownCommand"
    /\ r.err.desc = << "operation '", r.op, "' not defined" >>
    /\ RegisteredFor(r.op) # {} =>
          /\ Len(r.err.help_msg) > 3
          /\ { r.err.help_msg[k] : k \in 4..Len(r.err.help_msg) } = RegisteredFor(r.op)

\* C17: resolution picks the implementation registered for exactly (op, T),
\* else the one registered for (op, None), else fails with the hard
\* op_not_found error that lists the input types of op.  get on TabRow and
\* to-str on Bool, Num, Str pick the typed implementation, get and to-str
\* on any other type the untyped one, and len or nth on a type other than
\* Str or Tab fail.
C17_OverloadResolution ==
    ret.call = "resolve" =>
        LET exact == [op |-> ret.op, ty |-> ret.ty]
            any   == [op |-> ret.op, ty |-> None]
            Reg   == { Impls[i] : i \in DOMAIN Impls }
        IN  /\ exact \in Reg => (ret.tag = Ok /\ ret.impl = exact)
            /\ (exact \notin Reg /\ any \in Reg) => (ret.tag = Ok /\ ret.impl = any)
            /\ (exact \notin Reg /\ any \notin Reg) => NotFound(ret)
            /\ (ret.op = "get" /\ ret.ty = "TabRow") => ret.impl.ty = "TabRow"
            /\ (ret.op = "to-str" /\ ret.ty \in {"Bool", "Num", "Str"}) =>
                   ret.impl = exact
            /\ (ret.op = "get" /\ ret.ty # "TabRow") => ret.impl = any
            /\ (ret.op = "to-str" /\ ret.ty \notin {"Bool", "Num", "Str"}) =>
                   ret.impl = any
            /\ (ret.op \in {"len", "nth"} /\ ret.ty \notin {"Str", "Tab"}) =>
                   /\ NotFound(ret)
                   /\ RegisteredFor(ret.op) = {"Str", "Tab"}

\* len on a Num input found no implementation: the help lists Str and Tab.
C17_Witness ==
    /\ ret.call = "resolve" /\ ret.op = "len" /\ ret.ty = "Num"
    /\ ret.tag = Err /\ ret.err.hard
    /\ ret.err.help_msg =
          << "'", "len", "' is implemented for the following input types:",
             "Str", "Tab" >>

----------------------------------------------------------------------------
(* SpecTrc: trace_code_lines on a source text and a span of it.            *)

\* Longest source text, in bytes.
MaxCode == 5

\* The bytes of a source text: a letter, a space, a tab, a line feed, and
\* the two bytes of one character that takes two.
Bytes == { "a", " ", "\t", "\n", "LEAD", "CONT" }

\* &str: the two-byte character is whole wherever it occurs.
is_utf8(code) ==
    \A i \in DOMAIN code :
        /\ code[i] = "LEAD" => (i < Len(code) /\ code[i + 1] = "CONT")
        /\ code[i] = "CONT" => (i > 1 /\ code[i - 1] = "LEAD")

\* str::is_char_boundary
is_char_boundary(code, i) ==
    \/ i = 0
    \/ i = Len(code)
    \/ (i < Len(code) /\ code[i + 1] # "CONT")

\* code[a..b]
slice(code, a, b) == SubSeq(code, a + 1, b)

\* The end offset of the line that holds offset i: the first line feed at
\* or after i, or the end of the text.
line_end(code, i) ==
    IF i >= Len(code) THEN i
    ELSE CHOOSE j \in i..Len(code) :
            /\ j = Len(code) \/ code[j + 1] = "\n"
            /\ \A k \in (i + 1)..j : code[k] # "\n"

\* code.lines(), each line as the offsets of its first byte and of its end
RECURSIVE lines_from(_, _)
lines_from(code, i) ==
    IF i >= Len(code) THEN << >>
    ELSE With(line_end(code, i), LAMBDA j :
            << [end |-> j, start |-> i] >> \o lines_from(code, j + 1))

lines(code) == lines_from(code, 0)

\* A tab that is one column wide.
tabsize_one(c) == 1

tabsize(c) == IF c = "\t" THEN 4 ELSE 1

\* bs.chars().map(tabsize).sum(), summed by halves
RECURSIVE width(_)
width(bs) ==
    IF bs = << >> THEN 0
    ELSE IF Len(bs) = 1 THEN (IF bs[1] = "CONT" THEN 0 ELSE tabsize(bs[1]))
    ELSE With(Len(bs) \div 2, LAMBDA h :
            width(SubSeq(bs, 1, h)) + width(SubSeq(bs, h + 1, Len(bs))))

\* char::is_whitespace
is_whitespace(c) == c \in { " ", "\t", "\n" }

\* line.chars().take_while(|c| c.is_whitespace())
RECURSIVE take_while_whitespace(_)
take_while_whitespace(bs) ==
    IF bs = << >> \/ ~is_whitespace(Head(bs)) THEN << >>
    ELSE << Head(bs) >> \o take_while_whitespace(Tail(bs))

\* str::trim_end
RECURSIVE trim_end(_)
trim_end(bs) ==
    IF bs = << >> \/ ~is_whitespace(bs[Len(bs)]) THEN bs
    ELSE trim_end(SubSeq(bs, 1, Len(bs) - 1))

\* A line is passed over only when it ends before the span.
skipped_before_only(l, start, end) == l.end < start

\* offset_end < start || offset_start >= end
skipped(l, start, end) == l.end < start \/ l.start >= end

\* The triple pushed for line l; idx is where the line slice points in code.
visible(code, start, end, l) ==
    LET line      == slice(code, l.start, l.end)
        adj_start == l.start <= start
        adj_end   == l.end >= end
        s == IF adj_start THEN width(slice(code, l.start, start))
             ELSE width(take_while_whitespace(line))
        e == IF adj_end THEN width(slice(code, l.start, end))
             ELSE IF l.end = start THEN s + 1
             ELSE width(trim_end(line))
    IN  [end |-> e, idx |-> l.start, start |-> s, text |-> line]

RECURSIVE trace_lines_from(_, _, _, _)
trace_lines_from(code, start, end, ls) ==
    IF ls = << >> THEN << >>
    ELSE (IF skipped(Head(ls), start, end) THEN << >>
          ELSE << visible(code, start, end, Head(ls)) >>)
         \o trace_lines_from(code, start, end, Tail(ls))

trace_code_lines(code, start, end) ==
    trace_lines_from(code, start, end, lines(code))

\* Source texts, and the spans Trace::print hands over: not empty, on
\* character boundaries, ending at most one byte after the text.
Codes == { c \in SeqsUpTo(Bytes, MaxCode) : is_utf8(c) }
Spans(code) ==
    { sp \in (0..Len(code)) \X (1..(Len(code) + 1)) :
        /\ sp[1] < sp[2]
        /\ is_char_boundary(code, sp[1])
        /\ (is_char_boundary(code, sp[2]) \/ sp[2] = Len(code) + 1) }

InitTrc ==
    /\ IdleErr /\ IdleComp /\ IdleBat /\ IdleEval
    /\ debug = FALSE
    /\ blk = NewBlock(1, 0, "Nil", OpTag, << >>, << >>)
    /\ blg = {}
    /\ \E code \in Codes : \E sp \in Spans(code) :
          ret = [call |-> None,
                 code |-> code,
                 end |-> sp[2],
                 lines |-> << >>,
                 start |-> sp[1]]

TraceCodeLines ==
    /\ ret.call = None
    /\ ret' = [ret EXCEPT !.call = "trace_code_lines",
                          !.lines = trace_code_lines(ret.code, ret.start, ret.end)]
    /\ UNCHANGED <<errVars, debug, blk, blg, compVars, batVars, evalVars>>

NextTrc == TraceCodeLines

SpecTrc == InitTrc /\ [][NextTrc]_vars

----------------------------------------------------------------------------
(* Claims about trace_code_lines.                                          *)

\* The offsets at which a line of code starts, and where that line ends.
LineStarts(code) == { p \in 0..(Len(code) - 1) : p = 0 \/ code[p] = "\n" }
LineEnd(code, p) ==
    CHOOSE q \in p..Len(code) :
        /\ q = Len(code) \/ code[q + 1] = "\n"
        /\ \A k \in (p + 1)..q : code[k] # "\n"

\* Some byte of the line [p, q) lies in the span [s, e).
Intersects(p, q, s, e) == \E k \in p..(q - 1) : s <= k /\ k < e

\* The returned triples are lines of code, in source order.
LinesInOrder(code, R) ==
    /\ \A i \in DOMAIN R :
          /\ R[i].idx \in LineStarts(code)
          /\ R[i].text = slice(code, R[i].idx, LineEnd(code, R[i].idx))
    /\ \A i \in 1..(Len(R) - 1) : R[i].idx < R[i + 1].idx

\* C19: for a span s < e, trace_code_lines returns, in source order, exactly
\* the lines that start before e and end at or after s: the lines with a
\* byte in [s, e), a line that ends exactly at s, and an empty line
\* inside the span.
C19_LinesOfSpan ==
    ret.call = "trace_code_lines" =>
        /\ LinesInOrder(ret.code, ret.lines)
        /\ { ret.lines[i].idx : i \in DOMAIN ret.lines } =
              { p \in LineStarts(ret.code) :
                  p < ret.end /\ LineEnd(ret.code, p) >= ret.start }

\* C19 as stated: the lines returned are exactly the lines with a byte in
\* the half-open span [s, e).
C19_IntersectingLines ==
    ret.call = "trace_code_lines" =>
        /\ LinesInOrder(ret.code, ret.lines)
        /\ { ret.lines[i].idx : i \in DOMAIN ret.lines } =
              { p \in LineStarts(ret.code) :
                  Intersects(p, LineEnd(ret.code, p), ret.start, ret.end) }

\* Of three lines the span covers the end of the first and the whole of the
\* second: both are returned, the third is not.
C19_Witness ==
    /\ ret.call = "trace_code_lines"
    /\ ret.code = << "a", "\n", "a", "\n", "a" >>
    /\ ret.start = 1 /\ ret.end = 3
    /\ Len(ret.lines) = 2
    /\ ret.lines[1].idx = 0 /\ ret.lines[2].idx = 2

\* Columns of a text: one for each character, four for a tab.
Cols(bs) ==
    Cardinality({ i \in DOMAIN bs : bs[i] # "CONT" })
        + 3 * Cardinality({ i \in DOMAIN bs : bs[i] = "\t" })

SpaceOrTab(c) == c \in { " ", "\t" }

\* The leading whitespace of a line, and the line without its trailing one.
Leading(bs) ==
    SubSeq(bs, 1, CHOOSE n \in 0..Len(bs) :
                     /\ \A i \in 1..n : SpaceOrTab(bs[i])
                     /\ n < Len(bs) => ~SpaceOrTab(bs[n + 1]))
Trimmed(bs) ==
    SubSeq(bs, 1, CHOOSE n \in 0..Len(bs) :
                     /\ \A i \in (n + 1)..Len(bs) : SpaceOrTab(bs[i])
                     /\ n > 0 => ~SpaceOrTab(bs[n]))

\* The start column of every line, and the end column of a line that holds
\* the span end, as C20 gives them.
StartAndLastEnd(code, s, e, r) ==
    LET p == r.idx
        q == LineEnd(code, p)
    IN  /\ p <= s => r.start = Cols(slice(code, p, s))
        /\ p > s  => r.start = Cols(Leading(r.text))
        /\ q >= e => r.end = Cols(slice(code, p, e))

\* C20: the line that holds the span start starts at the width of the text
\* before s, a later line at the width of its leading whitespace; the line
\* that holds the span end ends at the width of the text before e; a line
\* that ends before e ends at the width of the line without trailing
\* whitespace, except the line that ends exactly at s, which ends one
\* column after its start.  A tab is four columns wide, any other
\* character one.
C20_VisibleColumns ==
    ret.call = "trace_code_lines" =>
        \A i \in DOMAIN ret.lines :
            LET r == ret.lines[i]
                q == LineEnd(ret.code, r.idx)
            IN  /\ StartAndLastEnd(ret.code, ret.start, ret.end, r)
                /\ (q < ret.end /\ q # ret.start) => r.end = Cols(Trimmed(r.text))
                /\ (q < ret.end /\ q = ret.start) => r.end = r.start + 1

\* C20 as stated: every line that ends before e ends at the width of the
\* line without trailing whitespace.
C20_TrimmedEnds ==
    ret.call = "trace_code_lines" =>
        \A i \in DOMAIN ret.lines :
            LET r == ret.lines[i]
                q == LineEnd(ret.code, r.idx)
            IN  /\ StartAndLastEnd(ret.code, ret.start, ret.end, r)
                /\ q < ret.end => r.end = Cols(Trimmed(r.text))

\* The span runs from the first line into the second, which starts with a
\* tab: the first line ends where its trailing space begins, the second
\* starts after the tab.
C20_Witness ==
    /\ ret.call = "trace_code_lines"
    /\ ret.code = << "a", " ", "\n", "\t", "a" >>
    /\ ret.start = 0 /\ ret.end = 5
    /\ ret.lines = << [end |-> 1, idx |-> 0, start |-> 0, text |-> << "a", " " >>],
                      [end |-> 5, idx |-> 3, start |-> 4, text |-> << "\t", "a" >>] >>

----------------------------------------------------------------------------
(* SpecRun: a pipeline is compiled by the inference loop and its Steps are *)
(* evaluated left to right on an input value.                              *)
(*   carried   the value handed to the next Step                           *)
(*   env       the Environment handed to the next Step                     *)
(*   at        the Step to invoke next, 0 before the evaluation            *)
(*   invoked   how often each Step was invoked                             *)
(*   events    the invocations, argument resolutions and set_data calls    *)
(*   outcome   the result of the evaluation                                *)

\* Error::eval
Error_eval(tag, desc, short_desc, help) ==
    [DefaultError EXCEPT !.cat = "Evaluation",
                         !.desc = desc,
                         !.help_msg = help,
                         !.traces = trace(tag, short_desc)]

Event(kind, idx, name, value) ==
    [idx |-> idx, kind |-> kind, name |-> name, value |-> value]

\* Context: the Environment and the calls made so far.
Context(environment, evs) == [env |-> environment, events |-> evs]

\* The number a literal stands for.
number(tag) == IF tag.str = "5" THEN 5 ELSE 0

\* Argument::resolve(|| input, cx): a literal is its value; an expression
\* is evaluated on the input and either fails or yields a value of its
\* output type (ok says which).
Argument_resolve(arg, input, cx, ok) ==
    CASE arg.variant = "Num" ->
            [err |-> DefaultError, tag |-> Ok, value |-> Value("Num", number(arg.tag))]
      [] arg.variant = "Expr" /\ ok ->
            [err |-> DefaultError,
             tag |-> Ok,
             value |-> Value(arg.out_ty,
                             IF input.ty = "Num" THEN input.value + 1 ELSE 1)]
      [] OTHER ->
            [err |-> Error_eval(arg.tag, << "evaluation of '", arg.tag.str, "' failed" >>,
                                NoStr, NoStr),
             tag |-> Err,
             value |-> NoValue]

\* Variable::set_data: writes the value into the Environment; a no-op
\* variable has no slot.
set_data(var, cx, v) ==
    Context(IF var.noop THEN cx.env ELSE [cx.env EXCEPT ![var.name] = v],
            Append(cx.events, Event("set_data", 0, var.name, v)))

StepR(tag, e, v, cx) == [cx |-> cx, err |-> e, tag |-> tag, value |-> v]

\* The Context after the resolution of binding expression k was asked for.
Resolved(cx, k, r) ==
    Context(cx.env, Append(cx.events, Event("resolve", k, r.tag, r.value)))

RECURSIVE bind_vars_all(_, _, _, _, _)
\* bind_vars without the ?: a failed expression is passed over.
bind_vars_all(bindings, k, value, cx, oks) ==
    IF k > Len(bindings) THEN StepR(Ok, DefaultError, NoValue, cx)
    ELSE With(Argument_resolve(bindings[k].arg, value, cx, oks[k]), LAMBDA v :
            IF v.tag = Err
            THEN With(bind_vars_all(bindings, k + 1, value, Resolved(cx, k, v), oks),
                      LAMBDA rest : StepR(Err, v.err, NoValue, rest.cx))
            ELSE bind_vars_all(bindings, k + 1, value,
                               set_data(bindings[k].var, Resolved(cx, k, v), v.value),
                               oks))

RECURSIVE bind_vars(_, _, _, _, _)
\* bind_vars of let_intrinsic, from binding k on
bind_vars(bindings, k, value, cx, oks) ==
    IF k > Len(bindings) THEN StepR(Ok, DefaultError, NoValue, cx)
    ELSE With(Argument_resolve(bindings[k].arg, value, cx, oks[k]), LAMBDA v :
            IF v.tag = Err THEN StepR(Err, v.err, NoValue, Resolved(cx, k, v))
            ELSE bind_vars(bindings, k + 1, value,
                           set_data(bindings[k].var, Resolved(cx, k, v), v.value),
                           oks))

\* A let Step that hands on the value bound last.
let_step_last_bound(step, value, cx, oks) ==
    With(bind_vars(step.bindings, 1, value, cx, oks), LAMBDA b :
        IF b.tag = Err THEN b
        ELSE StepR(Ok, DefaultError,
                   IF step.bindings = << >> THEN NoValue ELSE Value("Num", 5),
                   IF step.trailing # NoVariable
                   THEN set_data(step.trailing, b.cx, value) ELSE b.cx))

\* The closure of let_intrinsic
let_step(step, value, cx, oks) ==
    With(bind_vars(step.bindings, 1, value, cx, oks), LAMBDA b :
        IF b.tag = Err THEN b
        ELSE StepR(Ok, DefaultError, value,
                   IF step.trailing # NoVariable
                   THEN set_data(step.trailing, b.cx, value) ELSE b.cx))

\* An in Step that hands on its input.
in_step_keeps_input(step, val, cx, oks) ==
    With(Argument_resolve(step.arg, val, cx, oks[1]), LAMBDA x :
        IF x.tag = Err THEN StepR(Err, x.err, NoValue, Resolved(cx, 1, x))
        ELSE StepR(Ok, DefaultError, val, Resolved(cx, 1, x)))

\* The closure of in_intrinsic
in_step(step, val, cx, oks) ==
    With(Argument_resolve(step.arg, val, cx, oks[1]), LAMBDA x :
        IF x.tag = Err THEN StepR(Err, x.err, NoValue, Resolved(cx, 1, x))
        ELSE StepR(Ok, DefaultError, x.value, Resolved(cx, 1, x)))

\* Step::invoke of the Step compiled for node n
invoke(n, val, cx, oks) ==
    IF ag[n].op_tag.str = "let" THEN let_step(steps[n], val, cx, oks)
    ELSE in_step(steps[n], val, cx, oks)

\* Most expressions a Step of the pool resolves.
MaxExprs == 2

RunOps ==
    { OpNode("\\", << Num5 >>, << >>, None),
      OpNode("\\", << ExprN >>, << >>, None),
      OpNode("let", << >>, << >>, None),
      OpNode("let", << VarX >>, << >>, None),
      OpNode("let", << ExprN, VarX >>, << >>, None),
      OpNode("let", << ExprN, VarX, Num5, VarY >>, << >>, None),
      OpNode("let", << ExprN, VarX, ExprN, VarX, VarX >>, << >>, None),
      OpNode("let", << ExprN, VarX, ExprN, VarY, VarZ >>, << >>, None),
      OpNode("\\", << >>, << >>, None),
      OpNode("\\", << Num5, Num5 >>, << >>, None),
      OpNode("\\", << Num5 >>, << >>, "Str"),
      OpNode("\\", << ExprU >>, << >>, None) }

RunPrograms == UNION { [1..n -> RunOps] : n \in 1..MaxOps }

\* The values of an input type.
Values(ty) == IF ty = "Num" THEN { Value("Num", 0), Value("Num", 7) } ELSE { Value(ty, 0) }

InitRun ==
    /\ IdleErr /\ IdleBlk /\ IdleBat /\ IdleEval
    /\ debug \in BOOLEAN
    /\ ag \in RunPrograms
    /\ root_ty \in { "Nil", "Num" }
    /\ tg = [n \in DOMAIN ag |->
               [input |-> IF n = 1 THEN root_ty ELSE ag[n - 1].ann,
                output |-> ag[n].ann]]
    /\ lg = {}
    /\ steps = [n \in DOMAIN ag |-> NoStep]
    /\ pc = "pass" /\ pass = 1 /\ cur = 1 /\ changed = FALSE
    /\ pend = NoPending
    /\ last = [chgs |-> << >>,
               err |-> DefaultError,
               node |-> 0,
               out_ty |-> None,
               pass |-> 0,
               tag |-> None]
    /\ result = [err |-> DefaultError, tag |-> None]
    /\ pass_tg = tg /\ pass_lg = lg

EvalFrame == UNCHANGED <<errVars, debug, blkVars, compVars, batVars>>

\* The evaluation of the compiled pipeline starts on an input value.
EvalStart ==
    /\ pc = "done" /\ result.tag = Ok /\ at = 0
    /\ carried' \in Values(root_ty)
    /\ at' = 1
    /\ invoked' = [n \in DOMAIN steps |-> 0]
    /\ UNCHANGED <<env, events, outcome>>
    /\ EvalFrame

\* What the Step at invokes returns, for the expression outcomes oks.
Invoked(oks) ==
    invoke(at, carried, Context(env, Append(events, Event("invoke", at, "", carried))),
           oks)

Running == at \in DOMAIN steps /\ outcome.tag = None

\* The Step returns Ok((value, env)): the next Step gets both.
EvalStepOk ==
    /\ Running
    /\ \E oks \in [1..MaxExprs -> BOOLEAN] : \E r \in { Invoked(oks) } :
          /\ r.tag = Ok
          /\ carried' = r.value /\ env' = r.cx.env /\ events' = r.cx.events
    /\ invoked' = [invoked EXCEPT ![at] = @ + 1]
    /\ at' = at + 1
    /\ UNCHANGED outcome
    /\ EvalFrame

\* The Step returns Err(e): the evaluation returns e.
EvalStepErr ==
    /\ Running
    /\ \E oks \in [1..MaxExprs -> BOOLEAN] : \E r \in { Invoked(oks) } :
          /\ r.tag = Err
          /\ events' = r.cx.events
          /\ outcome' = [err |-> r.err, tag |-> Err, value |-> NoValue]
    /\ invoked' = [invoked EXCEPT ![at] = @ + 1]
    /\ UNCHANGED <<carried, env, at>>
    /\ EvalFrame

\* Every Step returned Ok: the evaluation returns the last value.
EvalDone ==
    /\ at = Len(steps) + 1 /\ outcome.tag = None
    /\ outcome' = [err |-> DefaultError, tag |-> Ok, value |-> carried]
    /\ UNCHANGED <<carried, env, at, invoked, events>>
    /\ EvalFrame

NextEval == EvalStart \/ EvalStepOk \/ EvalStepErr \/ EvalDone

NextRun == NextComp \/ NextEval

SpecRun == InitRun /\ [][NextRun]_vars

----------------------------------------------------------------------------
(* Claims about the Steps of let and of the input command.                 *)

\* The loop has just compiled node n into a Step.
CompiledNow(n) == ~steps[n].compiled /\ steps'[n].compiled

\* The Step of node n has just been invoked.
InvokedNow(n) == at = n /\ outcome.tag = None /\ invoked'[n] = invoked[n] + 1

\* What the invocation that has just returned added to the events.
NewEvents == SubSeq(events', Len(events) + 1, Len(events'))

\* The expressions of an invocation that failed to resolve.
FailedIn(evs) == { i \in DOMAIN evs : evs[i].kind = "resolve" /\ evs[i].name = Err }

\* C11: a let block that compiles asserts its input type T as output type
\* and its Step has out_ty = T.  When every binding expression resolves,
\* the Step returns its input value, and a trailing variable is set to that
\* value as the last thing the Step does; the Step fails only when a
\* binding expression fails.
C11_LetPassThrough ==
    [][ \A n \in DOMAIN ag : ag[n].op_tag.str = "let" =>
          /\ CompiledNow(n) =>
                /\ steps'[n].out_ty = tg[n].input
                /\ last'.chgs # << >>
                /\ last'.chgs[1] = KnownOutput(n, tg[n].input)
                /\ tg'[n].output = tg[n].input
          /\ (InvokedNow(n) /\ FailedIn(NewEvents) = {}) =>
                /\ outcome' = outcome /\ at' = n + 1
                /\ carried' = carried
                /\ steps[n].trailing # NoVariable =>
                      /\ NewEvents[Len(NewEvents)] =
                            Event("set_data", 0, steps[n].trailing.name, carried)
                      /\ ~steps[n].trailing.noop =>
                            env'[steps[n].trailing.name] = carried
          /\ (InvokedNow(n) /\ FailedIn(NewEvents) # {}) => outcome'.tag = Err ]_vars

\* The Step of 'let { + 1 } $x { + 1 } $x $x' has bound x to 8 twice, then to
\* its input 7, and handed 7 on to the next Step.
C11_Witness ==
    /\ Len(ag) = 2 /\ ag[1] = OpNode("let", << ExprN, VarX, ExprN, VarX, VarX >>, << >>, None)
    /\ steps[1].compiled /\ steps[1].out_ty = "Num"
    /\ at = 2 /\ invoked[1] = 1
    /\ carried = Value("Num", 7)
    /\ events[3] = Event("set_data", 0, "x", Value("Num", 8))
    /\ env["x"] = Value("Num", 7)

\* C12: an input command that compiles has exactly one argument, asserts
\* the argument's output type and its Step has that out_ty and holds the
\* argument.  The Step resolves the argument once, on the carried value,
\* and returns what it resolved to, not the carried value; it leaves the
\* environment alone.
C12_InputCommand ==
    [][ \A n \in DOMAIN ag : ag[n].op_tag.str = "\\" =>
          /\ CompiledNow(n) =>
                /\ Len(ag[n].args) = 1
                /\ steps'[n].arg = ag[n].args[1]
                /\ steps'[n].out_ty = ag[n].args[1].out_ty
                /\ last'.chgs = << KnownOutput(n, ag[n].args[1].out_ty) >>
          /\ InvokedNow(n) =>
                /\ Len(NewEvents) = 2
                /\ NewEvents[1] = Event("invoke", n, "", carried)
                /\ NewEvents[2].kind = "resolve"
                /\ NewEvents[2].name = Ok =>
                      /\ carried' = NewEvents[2].value
                      /\ carried'.ty = steps[n].out_ty
                      /\ steps[n].arg.variant = "Num" => carried' = Value("Num", 5)
                      /\ steps[n].arg.variant = "Expr" => carried'.value = carried.value + 1
                      /\ at' = n + 1
                /\ env' = env ]_vars

\* The Step of the input command with argument 5 was handed 7 and returned 5.
C12_Witness ==
    /\ Len(ag) = 1 /\ ag[1] = OpNode("\\", << Num5 >>, << >>, None)
    /\ events = << Event("invoke", 1, "", Value("Num", 7)),
                   Event("resolve", 1, Ok, Value("Num", 5)) >>
    /\ outcome = [err |-> DefaultError, tag |-> Ok, value |-> Value("Num", 5)]

\* The events of the last invocation.
LastInvocation ==
    LET i == CHOOSE k \in DOMAIN events :
                 events[k].kind = "invoke" /\ \A j \in (k + 1)..Len(events) : events[j].kind # "invoke"
    IN  SubSeq(events, i + 1, Len(events))

\* C18: the Steps are invoked left to right, each at most once.  When a
\* Step returns an error the evaluation returns that error and invokes no
\* later Step; nothing is evaluated afterwards.  A let Step whose binding
\* expression k fails has resolved the expressions 1..k, bound the
\* variables 1..k-1 and nothing else.
C18_FailureAborts ==
    /\ [](at > 0 =>
            /\ \A n \in DOMAIN invoked :
                  invoked[n] = (IF n < at \/ (n = at /\ outcome.tag = Err) THEN 1 ELSE 0)
            /\ outcome.tag = Err =>
                  LET evs == LastInvocation
                      k   == evs[Len(evs)].idx
                  IN  /\ at \in DOMAIN steps
                      /\ evs[Len(evs)].kind = "resolve" /\ evs[Len(evs)].name = Err
                      /\ outcome.err.cat = "Evaluation"
                      /\ ag[at].op_tag.str = "let" =>
                            /\ outcome.err.desc[2] = steps[at].bindings[k].arg.tag.str
                            /\ Len(evs) = 2 * k - 1
                            /\ \A i \in 1..(k - 1) :
                                  /\ evs[2 * i - 1].kind = "resolve"
                                  /\ evs[2 * i - 1].idx = i
                                  /\ evs[2 * i - 1].name = Ok
                                  /\ evs[2 * i] =
                                        Event("set_data", 0, steps[at].bindings[i].var.name,
                                              evs[2 * i - 1].value))
    /\ [][ outcome.tag # None => UNCHANGED evalVars ]_vars

\* The first binding expression of 'let { + 1 } $x { + 1 } $x $x' failed: the
\* second was not resolved, x was not set and the input command after the
\* let was not invoked.
C18_Witness ==
    /\ Len(ag) = 2 /\ ag[1] = OpNode("let", << ExprN, VarX, ExprN, VarX, VarX >>, << >>, None)
    /\ outcome.tag = Err /\ at = 1
    /\ invoked = << 1, 0 >>
    /\ events = << Event("invoke", 1, "", Value("Num", 7)),
                   Event("resolve", 1, Err, NoValue) >>
    /\ env["x"] = NoValue

----------------------------------------------------------------------------
(* SpecPrt: Trace::print of a trace into a source text, colour off.  The   *)
(* output is the sequence of lines written:                                *)
(*   "-->"   the header: text is the location, col the column after ':'    *)
(*   "|"     a source line                                                 *)
(*   "^"     the caret line: col spaces, then carets carets, then desc     *)

\* The start of the fold over the start columns in Trace::print.
MinStart == 10000

Line(kind, text, col, carets, desc) ==
    [carets |-> carets, col |-> col, desc |-> desc, kind |-> kind, text |-> text]

\* source.lines().map(|s| (s, 0, 0))
all_lines(src) ==
    [i \in DOMAIN lines(src) |->
        [end |-> 0,
         idx |-> lines(src)[i].start,
         start |-> 0,
         text |-> slice(src, lines(src)[i].start, lines(src)[i].end)]]

Min2of(a, b) == IF a < b THEN a ELSE b
Max2of(a, b) == IF a > b THEN a ELSE b

RECURSIVE fold_min_max(_, _, _, _)
\* src_lines.iter().fold((10_000, 0), |(x, y), (_, a, b)| (min(x, a), max(y, b)))
fold_min_max(src_lines, i, x, y) ==
    IF i > Len(src_lines) THEN << x, y >>
    ELSE fold_min_max(src_lines, i + 1,
                      Min2of(x, src_lines[i].start), Max2of(y, src_lines[i].end))

\* if min < max { .. }: min spaces, max - min carets, the description
caret_line(mm, desc) ==
    IF mm[1] < mm[2] THEN << Line("^", << >>, mm[1], mm[2] - mm[1], desc) >> ELSE << >>

\* Trace::print(false, wtr)
Trace_print(t) ==
    With(IF t.len > 0 THEN trace_code_lines(t.source, t.start, t.start + t.len)
         ELSE all_lines(t.source), LAMBDA src_lines :
        << Line("-->", t.loc, IF src_lines = << >> THEN 0 ELSE src_lines[1].start, 0, NoStr) >>
        \o [i \in DOMAIN src_lines |-> Line("|", src_lines[i].text, 0, 0, NoStr)]
        \o caret_line(fold_min_max(src_lines, 1, MinStart, 0), t.desc))

\* A source line wider than MinStart columns: tabs, then a letter.
LongLine == [i \in 1..2502 |-> IF i <= 2501 THEN "\t" ELSE "a"]

\* The traces printed: every short text with every span of it, the span
\* empty or not, and the long line with its letter marked or the column
\* after it.
Traces ==
    { [desc |-> d, len |-> sp[2] - sp[1], loc |-> "shell", source |-> c, start |-> sp[1]] :
        d \in { NoStr, << "here" >> },
        c \in { x \in SeqsUpTo(Bytes, MaxCode - 1) : is_utf8(x) },
        sp \in { q \in (0..MaxCode) \X (0..(MaxCode + 1)) : q[1] <= q[2] } }
    \cup { [desc |-> NoStr, len |-> 1, loc |-> "shell", source |-> LongLine, start |-> st] :
             st \in { 2501, 2502 } }

InitPrt ==
    /\ IdleErr /\ IdleComp /\ IdleBat /\ IdleEval
    /\ debug = FALSE
    /\ blk = NewBlock(1, 0, "Nil", OpTag, << >>, << >>)
    /\ blg = {}
    /\ \E t \in Traces :
          /\ t.start <= Len(t.source) /\ t.start + t.len <= Len(t.source) + 1
          /\ is_char_boundary(t.source, t.start)
          /\ (is_char_boundary(t.source, t.start + t.len)
                \/ t.start + t.len = Len(t.source) + 1)
          /\ ret = [call |-> None, out |-> << >>, trace |-> t]

TracePrint ==
    /\ ret.call = None
    /\ ret' = [ret EXCEPT !.call = "print", !.out = Trace_print(ret.trace)]
    /\ UNCHANGED <<errVars, debug, blk, blg, compVars, batVars, evalVars>>

NextPrt == TracePrint

SpecPrt == InitPrt /\ [][NextPrt]_vars

----------------------------------------------------------------------------
(* Claims about Trace::print and the visible ranges it is given.           *)

\* The smallest start column and the largest end column of printed lines.
SmallestStart(L) == CHOOSE m \in { L[i].start : i \in DOMAIN L } : \A i \in DOMAIN L : m <= L[i].start
LargestEnd(L) == CHOOSE m \in { L[i].end : i \in DOMAIN L } : \A i \in DOMAIN L : m >= L[i].end

\* The lines of kind k among the lines written.
OfKind(out, k) == { i \in DOMAIN out : out[i].kind = k }

\* C21: with len = 0 Trace::print writes the header with column 0, every
\* line of the source and no caret line.  With len > 0 it writes the header
\* with the start column of the first line trace_code_lines returns, those
\* lines and no others, and, when the smallest start column min is below
\* the largest end column max, exactly one caret line: min spaces, max - min
\* carets and the description.
C21_TraceRendering ==
    ret.call = "print" =>
        LET t   == ret.trace
            out == ret.out
            L   == IF t.len > 0 THEN trace_code_lines(t.source, t.start, t.start + t.len)
                   ELSE all_lines(t.source)
        IN  /\ out[1].kind = "-->" /\ OfKind(out, "-->") = {1}
            /\ OfKind(out, "|") = { i + 1 : i \in DOMAIN L }
            /\ \A i \in DOMAIN L : out[i + 1].text = L[i].text
            /\ t.len = 0 =>
                  /\ out[1].col = 0
                  /\ Len(out) = 1 + Len(lines(t.source))
                  /\ OfKind(out, "^") = {}
            /\ (t.len > 0 /\ L # << >>) =>
                  /\ out[1].col = L[1].start
                  /\ SmallestStart(L) < LargestEnd(L) =>
                        /\ Len(out) = Len(L) + 2
                        /\ out[Len(out)] =
                              Line("^", << >>, SmallestStart(L),
                                   LargestEnd(L) - SmallestStart(L), t.desc)

\* C27: a line that ends exactly where a span of len > 0 starts is returned
\* by trace_code_lines with the visible range (s, s + 1), s the width of the
\* whole line; when it is the only line of the source, Trace::print writes
\* the header, the line and one caret line of s spaces and one caret.
C27_SingleMark ==
    (ret.call = "print" /\ ret.trace.len > 0) =>
        LET t == ret.trace
            L == trace_code_lines(t.source, t.start, t.start + t.len)
        IN  \A p \in LineStarts(t.source) : LineEnd(t.source, p) = t.start =>
                LET line == slice(t.source, p, t.start)
                IN  /\ \E i \in DOMAIN L :
                          L[i] = [end |-> Cols(line) + 1,
                                  idx |-> p,
                                  start |-> Cols(line),
                                  text |-> line]
                    /\ line = t.source =>
                          ret.out = << Line("-->", t.loc, Cols(line), 0, NoStr),
                                       Line("|", line, 0, 0, NoStr),
                                       Line("^", << >>, Cols(line), 1, t.desc) >>

\* C30: every triple trace_code_lines returns for a span with start < end
\* has its start column at or before its end column.
C30_WellFormedRanges ==
    ret.call = "trace_code_lines" =>
        \A i \in DOMAIN ret.lines : ret.lines[i].start <= ret.lines[i].end

----------------------------------------------------------------------------
(* SpecFld: FieldAccessor::construct applied to a type, a literal field    *)
(* argument and the tag of the calling op (get or the dot operator).       *)

\* A Type: a built-in type (no structure) or Ty::Def of a TypeDef with a
\* Product or a Sum structure.
TypeDef(name, structure, fields) ==
    [fields |-> fields, name |-> name, structure |-> structure]

\* A field of a Product: its name and its type.
Field(name, ty) == [name |-> name, ty |-> ty]

\* The field names of a Product separated by ", ".
RECURSIVE field_list(_, _)
field_list(fields, i) ==
    IF i > Len(fields) THEN << >>
    ELSE (IF i > 1 THEN << ", " >> ELSE << >>) \o << fields[i].name >>
         \o field_list(fields, i + 1)

\* Error::field_not_found
field_not_found(field, ty) ==
    [cat |-> "Semantics",
     desc |-> << "'", ty.name, "' does not contain field '", field.str, "'" >>,
     hard |-> TRUE,
     help_msg |-> IF ty.structure = "Sum" THEN NoStr
                  ELSE << "'", ty.name, "' has the following fields: " >>
                       \o field_list(ty.fields, 1),
     traces |-> trace(field, << "'", field.str, "' not found" >>)]

\* A search that takes the last field of the name: a mutant.
find_last(fields, field_name) ==
    LET hits == { i \in DOMAIN fields : fields[i].name = field_name }
    IN  IF hits = {} THEN 0 ELSE CHOOSE i \in hits : \A j \in hits : j <= i

\* fields.iter().enumerate().find(..): the position (from 1) of the first
\* field of the name, 0 when there is none
find(fields, field_name) ==
    LET hits == { i \in DOMAIN fields : fields[i].name = field_name }
    IN  IF hits = {} THEN 0 ELSE CHOOSE i \in hits : \A j \in hits : i <= j

\* FieldAccessor::construct
construct(ty, field_arg, err_tag) ==
    IF ty.structure = None
    THEN [err |-> FieldAccessor_construct(ty.name, err_tag).err,
          idx |-> 0,
          out_ty |-> None,
          tag |-> Err]
    ELSE IF ty.structure # "Product"
    THEN [err |-> [wrong_op_input_type(ty.name, err_tag) EXCEPT
                      !.help_msg = << "types with 'sum' structure cannot be queried into" >>],
          idx |-> 0,
          out_ty |-> None,
          tag |-> Err]
    ELSE With(find(ty.fields, field_arg.tag.str), LAMBDA i :
            IF i = 0
            THEN [err |-> field_not_found(field_arg.tag, ty),
                  idx |-> 0,
                  out_ty |-> None,
                  tag |-> Err]
            ELSE [err |-> DefaultError,
                  idx |-> i - 1,
                  out_ty |-> ty.fields[i].ty,
                  tag |-> Ok])

\* Most fields of a user type.
MaxFields == 2

\* Field names and field types of the user types.
FieldNames == { "x", "y", "t0" }
FieldTys == { "Num", "Str" }

\* The types construct is applied to.
TyPool ==
    { TypeDef(t, None, << >>) : t \in Types }
    \cup { TypeDef("Point", "Product", fs) :
             fs \in SeqsUpTo({ Field(n, t) : n \in FieldNames, t \in FieldTys }, MaxFields) }
    \cup { TypeDef("Ord", "Sum", << >>) }

\* Literal field arguments.
FieldArgs == { ArgNode("Ident", Tag(n, 4, 4 + 1), "Str") : n \in FieldNames }

\* The ops that call construct.
AccessOps == { Tag("get", 0, 3), Tag(".", 3, 4) }

InitFld ==
    /\ IdleErr /\ IdleComp /\ IdleBat /\ IdleEval /\ debug = FALSE
    /\ blk = NewBlock(1, 0, "Nil", OpTag, << >>, << >>)
    /\ blg = {}
    /\ \E ty \in TyPool, f \in FieldArgs, op \in AccessOps :
          ret = [call |-> None,
                 field |-> f,
                 op_tag |-> op,
                 res |-> construct(TypeDef("Nil", None, << >>), f, op),
                 ty |-> ty]

Construct ==
    /\ ret.call = None
    /\ ret' = [ret EXCEPT !.call = "construct",
                          !.res = construct(ret.ty, ret.field, ret.op_tag)]
    /\ UNCHANGED <<errVars, debug, blk, blg, compVars, batVars, evalVars>>

NextFld == Construct

SpecFld == InitFld /\ [][NextFld]_vars

\* C26: on a product type construct returns the index of the first field of
\* the argument's name and that field's type, and the hard field_not_found
\* error when there is none; on a sum type it fails with a hard error whose
\* help is that sum structures cannot be queried into; on any other type it
\* fails with the hard wrong_op_input_type error.
C26_FieldAccess ==
    ret.call = "construct" =>
        LET ty   == ret.ty
            name == ret.field.tag.str
            res  == ret.res
            hits == { i \in DOMAIN ty.fields : ty.fields[i].name = name }
        IN  /\ (ty.structure = "Product" /\ hits # {}) =>
                  /\ res.tag = Ok
                  /\ res.idx + 1 \in hits
                  /\ \A j \in hits : res.idx + 1 <= j
                  /\ res.out_ty = ty.fields[res.idx + 1].ty
            /\ (ty.structure = "Product" /\ hits = {}) =>
                  /\ res.tag = Err /\ res.err.hard
                  /\ res.err = field_not_found(ret.field.tag, ty)
            /\ ty.structure = "Sum" =>
                  /\ res.tag = Err /\ res.err.hard
                  /\ res.err.help_msg
                       = << "types with 'sum' structure cannot be queried into" >>
            /\ ty.structure = None =>
                  /\ res.tag = Err /\ res.err.hard
                  /\ res.err = wrong_op_input_type(ty.name, ret.op_tag)

\* C26 witness: construct found the second of two fields named y on a type
\* whose first field is x.
C26_Witness ==
    /\ ret.call = "construct"
    /\ ret.ty.structure = "Product" /\ Len(ret.ty.fields) = 2
    /\ ret.ty.fields[1].name = "x" /\ ret.ty.fields[2] = Field("y", "Str")
    /\ ret.field.tag.str = "y"
    /\ ret.res.tag = Ok /\ ret.res.idx = 1 /\ ret.res.out_ty = "Str"

----------------------------------------------------------------------------
(* SpecRnd: a rand block of 0 to MaxRandArgs arguments is compiled by      *)
(* rand_intrinsic and the Step it returns is invoked on an input.  The     *)
(* record compiled holds the Result<Step> and the arguments it captured.   *)

\* cnv_num_to_uint: the unsigned integer of a Num, an error for a number
\* that is none.
cnv_num_to_uint(v, tag) ==
    IF v.ty = "Num" /\ v.value >= 0
    THEN [err |-> DefaultError, tag |-> Ok, value |-> v.value]
    ELSE [err |-> Error_eval(tag, << "could not convert number into unsigned integer" >>,
                             NoStr, NoStr),
          tag |-> Err,
          value |-> 0]

\* A check that lets from = to pass: a mutant.
check_from_le_to(from, to, tag) ==
    IF from > to
    THEN [err |-> Error_eval(tag, << "from must be less than to. found from: ",
                                     ToString(from), " to: ", ToString(to) >>,
                             NoStr, NoStr),
          tag |-> Err]
    ELSE [err |-> DefaultError, tag |-> Ok]

\* check_from_lt_to
check_from_lt_to(from, to, tag) ==
    IF from >= to
    THEN [err |-> Error_eval(tag, << "from must be less than to. found from: ",
                                     ToString(from), " to: ", ToString(to) >>,
                             NoStr, NoStr),
          tag |-> Err]
    ELSE [err |-> DefaultError, tag |-> Ok]

\* rand_intrinsic::next_num: the next argument, which must return a Num of
\* known type
next_num(b) ==
    With(next_arg(b), LAMBDA a :
        IF a.tag = Err THEN a
        ELSE IF returns(a.arg, "Num").tag = Err
             THEN [a EXCEPT !.tag = Err, !.err = returns(a.arg, "Num").err]
        ELSE IF concrete(a.arg).tag = Err
             THEN [a EXCEPT !.tag = Err, !.err = concrete(a.arg).err]
        ELSE a)

\* The first k arguments through next_num, in source order.
RECURSIVE next_nums(_, _)
next_nums(b, k) ==
    IF k = 0 THEN [args |-> << >>, blk |-> b, err |-> DefaultError, tag |-> Ok]
    ELSE With(next_num(b), LAMBDA a :
            IF a.tag = Err
            THEN [args |-> << >>, blk |-> a.blk, err |-> a.err, tag |-> Err]
            ELSE With(next_nums(a.blk, k - 1), LAMBDA rest :
                     IF rest.tag = Err THEN rest
                     ELSE [rest EXCEPT !.args = << a.arg >> \o @]))

\* The Result<Step> of rand_intrinsic with the arguments its closure holds.
RandStep(r, from, to, len) == [from |-> from, len |-> len, step |-> r, to |-> to]

\* rand_intrinsic
rand_intrinsic(b) ==
    With(args_len(b), LAMBDA args :
    With(assert_output(b, IF args = 3 THEN "Tab" ELSE "Num"), LAMBDA o :
        IF o.tag = Panic THEN RandStep(Panicked(o.blk), NoArg, NoArg, NoArg)
        ELSE With(next_nums(o.blk, IF args \in 1..3 THEN args ELSE 0), LAMBDA n :
            IF n.tag = Err THEN RandStep(Fail(n.blk, n.err), NoArg, NoArg, NoArg)
            ELSE RandStep(Evald(n.blk, IF args = 3 THEN "Tab" ELSE "Num", << >>),
                          IF args \in {2, 3} THEN n.args[1] ELSE NoArg,
                          IF args = 1 THEN n.args[1]
                          ELSE IF args \in {2, 3} THEN n.args[2] ELSE NoArg,
                          IF args = 3 THEN n.args[3] ELSE NoArg))))

\* A table of one column: its header and the entries below it.
Table(header, rows) == [header |-> header, rows |-> rows]

\* rand_intrinsic::bnd: the argument resolved on the input, def without one
bnd(arg, i, cx, def, ok) ==
    IF arg = NoArg
    THEN [err |-> DefaultError, tag |-> Ok, value |-> Value("Num", def)]
    ELSE Argument_resolve(arg, i, cx, ok)

\* rng.f64() * d + f: a number of [f, t), the lowest or the highest integer
\* of it as the draw u says
sample(f, t, u) == IF u = 0 THEN f ELSE t - 1

\* The closures rand_intrinsic hands to eval_o: the Step invoked on input i
\* with the draws us of the generator.
rand_step(rs, i, cx, oks, us) ==
    With(bnd(rs.from, i, cx, 0, oks[1]), LAMBDA f :
    IF f.tag = Err THEN StepR(Err, f.err, NoValue, cx)
    ELSE With(bnd(rs.to, i, cx, 1, oks[2]), LAMBDA t :
    IF t.tag = Err THEN StepR(Err, t.err, NoValue, cx)
    ELSE IF rs.len # NoArg
    THEN With(Argument_resolve(rs.len, i, cx, oks[3]), LAMBDA l :
         IF l.tag = Err THEN StepR(Err, l.err, NoValue, cx)
         ELSE With(cnv_num_to_uint(l.value, rs.len.tag), LAMBDA len :
         IF len.tag = Err THEN StepR(Err, len.err, NoValue, cx)
         ELSE With(check_from_lt_to(f.value.value, t.value.value, OpTag), LAMBDA c :
         IF c.tag = Err THEN StepR(Err, c.err, NoValue, cx)
         ELSE StepR(Ok, DefaultError,
                    Value("Tab", Table("rand", [k \in 1..len.value |->
                                    sample(f.value.value, t.value.value, us[k])])),
                    cx))))
    ELSE With(check_from_lt_to(f.value.value, t.value.value, OpTag), LAMBDA c :
         IF c.tag = Err THEN StepR(Err, c.err, NoValue, cx)
         ELSE StepR(Ok, DefaultError,
                    Value("Num", sample(f.value.value, t.value.value, us[1])), cx))))

\* Most arguments of a rand block.
MaxRandArgs == 3
\* Most draws a Step takes from the generator.
MaxDraws == 5

\* The literal 0.
Num0 == ArgNode("Num", Tag("0", 4, 5), "Num")

\* Arguments of a rand block: literals, an expression of the input, a Str.
RandArgs == { Num5, Num0, ExprN, IdentA }

\* Inputs the Step is invoked on.
RandInputs == { Value("Num", 0 - 2), Value("Num", 0), Value("Num", 4) }

InitRnd ==
    /\ IdleErr /\ IdleComp /\ IdleBat /\ IdleEval
    /\ debug \in BOOLEAN
    /\ blg = {}
    /\ \E src \in SeqsUpTo(RandArgs, MaxRandArgs) :
          /\ blk = NewBlock(1, 0, "Num", OpTag, Reverse(src), << >>)
          /\ ret = [call |-> None,
                    compiled |-> RandStep(NoStep, NoArg, NoArg, NoArg),
                    input |-> NoValue,
                    oks |-> << >>,
                    res |-> StepR(None, DefaultError, NoValue, Context(env, << >>))]

RndFrame == UNCHANGED <<errVars, debug, blk, blg, compVars, batVars, evalVars>>

RandCompile ==
    /\ ret.call = None
    /\ ret' = [ret EXCEPT !.call = "rand_intrinsic", !.compiled = rand_intrinsic(blk)]
    /\ RndFrame

RandInvoke ==
    /\ ret.call = "rand_intrinsic"
    /\ ret.compiled.step.tag = Ok
    /\ \E i \in RandInputs, oks \in [1..3 -> BOOLEAN], us \in [1..MaxDraws -> {0, 1}] :
          ret' = [ret EXCEPT !.call = "invoke", !.input = i, !.oks = oks,
                             !.res = rand_step(ret.compiled, i, Context(env, << >>),
                                               oks, us)]
    /\ RndFrame

NextRnd == RandCompile \/ RandInvoke

SpecRnd == InitRnd /\ [][NextRnd]_vars

\* The bounds the invoked Step resolved: from (0 when omitted) and to (1
\* when omitted).
RandFrom == bnd(ret.compiled.from, ret.input, Context(env, << >>), 0, ret.oks[1])
RandTo == bnd(ret.compiled.to, ret.input, Context(env, << >>), 1, ret.oks[2])

\* The Step was invoked and resolved a from that is not below its to.
FromNotBelowTo ==
    /\ ret.call = "invoke"
    /\ RandFrom.tag = Ok /\ RandTo.tag = Ok
    /\ RandFrom.value.value >= RandTo.value.value

\* The error of check_from_lt_to.
IsFromLtToError(e) ==
    /\ e.cat = "Evaluation"
    /\ e.desc # << >> /\ e.desc[1] = "from must be less than to. found from: "

\* rand asserts Tab as its output exactly when the block has three
\* arguments, and Num otherwise.
RandOutputTy ==
    ret.call # None =>
        ret.compiled.step.chgs
            = << KnownOutput(blk.node, IF args_len(blk) = 3 THEN "Tab" ELSE "Num") >>

\* C24 as stated: whenever the resolved from is not below the resolved to
\* the Step returns the Evaluation error of check_from_lt_to and no value;
\* the asserted output type is Tab exactly with three arguments.
C24_RandRequiresFromLtTo ==
    /\ RandOutputTy
    /\ FromNotBelowTo =>
          /\ ret.res.tag = Err /\ ret.res.value.ty = None
          /\ IsFromLtToError(ret.res.err)

\* C24: whenever the resolved from is not below the resolved to the Step
\* returns an error and no value: the Evaluation error of check_from_lt_to,
\* or, with three arguments, the error of resolving the length or of
\* converting it to an unsigned integer, which is done before from and to
\* are compared; the asserted output type is Tab exactly with three
\* arguments.
C24_RandRejectsOrLenFails ==
    /\ RandOutputTy
    /\ FromNotBelowTo =>
          /\ ret.res.tag = Err /\ ret.res.value.ty = None
          /\ LET l == Argument_resolve(ret.compiled.len, ret.input,
                                       Context(env, << >>), ret.oks[3])
                 lenFails == /\ ret.compiled.len # NoArg
                             /\ \/ l.tag = Err
                                \/ cnv_num_to_uint(l.value, ret.compiled.len.tag).tag = Err
             IN  IF lenFails THEN ~IsFromLtToError(ret.res.err)
                 ELSE IsFromLtToError(ret.res.err)

\* C24 witness: rand 5 5 was invoked and returned the error of
\* check_from_lt_to.
C24_Witness ==
    /\ FromNotBelowTo
    /\ args_len(blk) = 2
    /\ RandFrom.value.value = 5 /\ RandTo.value.value = 5
    /\ ret.res.tag = Err /\ IsFromLtToError(ret.res.err)

----------------------------------------------------------------------------
(* SpecRng: a range block is compiled by range_intrinsic and its Step is   *)
(* invoked.  table_range maps the integers of from..to in parallel: the    *)
(* range is split into contiguous parts, the parts are mapped in any       *)
(* interleaving, and par_extend appends the rows of the parts.             *)

\* The Result<Step> of range_intrinsic with the arguments its closure holds
\* (to is NoArg when the input stands for it).
RangeStep(r, from, to) == [from |-> from, step |-> r, to |-> to]

\* range_intrinsic
range_intrinsic(b) ==
    With(assert_output(b, "Tab"), LAMBDA o :
        IF o.tag = Panic THEN RangeStep(Panicked(o.blk), NoArg, NoArg)
        ELSE With(next_num(o.blk), LAMBDA from :
            IF from.tag = Err THEN RangeStep(Fail(from.blk, from.err), NoArg, NoArg)
            ELSE IF args_len(from.blk) = 0 /\ b.in_ty = "Num"
            THEN RangeStep(Evald(from.blk, "Tab", << >>), from.arg, NoArg)
            ELSE With(next_num(from.blk), LAMBDA to :
                IF to.tag = Err THEN RangeStep(Fail(to.blk, to.err), NoArg, NoArg)
                ELSE RangeStep(Evald(to.blk, "Tab", << >>), from.arg, to.arg))))

\* x.resolve(|| input.clone(), &cx).and_then(|n| cnv_num_to_uint(n, &x.tag))
resolve_uint(arg, input, cx, ok) ==
    With(Argument_resolve(arg, input, cx, ok), LAMBDA n :
        IF n.tag = Err THEN [err |-> n.err, tag |-> Err, value |-> 0]
        ELSE cnv_num_to_uint(n.value, arg.tag))

\* The closures of range_intrinsic up to the call of table_range: from and
\* to as unsigned integers, or the first error.
range_bounds(rs, input, cx, oks) ==
    With(resolve_uint(rs.from, input, cx, oks[1]), LAMBDA from :
        IF from.tag = Err THEN [err |-> from.err, from |-> 0, tag |-> Err, to |-> 0]
        ELSE With(IF rs.to = NoArg THEN cnv_num_to_uint(input, OpTag)
                  ELSE resolve_uint(rs.to, input, cx, oks[2]), LAMBDA to :
            IF to.tag = Err THEN [err |-> to.err, from |-> 0, tag |-> Err, to |-> 0]
            ELSE [err |-> DefaultError, from |-> from.value, tag |-> Ok, to |-> to.value]))

\* A part of the range given to one task: the integers lo..hi-1 and the
\* rows mapped so far.
Part(lo, hi) == [hi |-> hi, lo |-> lo, out |-> << >>]

\* (from..to).into_par_iter(): the range split at the cut points cuts.
RECURSIVE split(_, _, _)
split(from, to, cuts) ==
    IF from >= to THEN << >>
    ELSE IF cuts = {} THEN << Part(from, to) >>
    ELSE With(CHOOSE m \in cuts : \A c \in cuts : m <= c, LAMBDA m :
            << Part(from, m) >> \o split(m, to, cuts \ {m}))

RECURSIVE concat(_, _, _)
\* The rows of the parts ps taken in the order ord.
concat(ps, ord, i) ==
    IF i > Len(ord) THEN << >> ELSE ps[ord[i]].out \o concat(ps, ord, i + 1)

\* par_extend that appends the parts as they finish: a mutant.
par_extend_as_finished(ps, finished) == concat(ps, finished, 1)

\* par_extend: the rows of the parts in the order of the range
par_extend(ps, finished) == concat(ps, [k \in DOMAIN ps |-> k], 1)

\* Most parts a range is split into.
MaxParts == 3

\* Arguments of a range block.
RangeArgs == { Num5, Num0, ExprN }

\* Inputs the Step is invoked on.
RangeInputs == { Value("Num", 0 - 2), Value("Num", 0), Value("Num", 1), Value("Num", 3) }

InitRng ==
    /\ IdleErr /\ IdleComp /\ IdleBat /\ IdleEval
    /\ debug = FALSE
    /\ blg = {}
    /\ \E src \in SeqsUpTo(RangeArgs, MaxArgs), ty \in { "Num", "Nil" } :
          /\ blk = NewBlock(1, 0, ty, OpTag, Reverse(src), << >>)
          /\ ret = [call |-> None,
                    compiled |-> RangeStep(NoStep, NoArg, NoArg),
                    finished |-> << >>,
                    from |-> 0,
                    input |-> NoValue,
                    oks |-> << >>,
                    parts |-> << >>,
                    res |-> StepR(None, DefaultError, NoValue, Context(env, << >>)),
                    to |-> 0]

RangeCompile ==
    /\ ret.call = None
    /\ ret' = [ret EXCEPT !.call = "range_intrinsic", !.compiled = range_intrinsic(blk)]
    /\ RndFrame

\* The Step is invoked: the bounds are resolved and, when they are unsigned
\* integers, the range is split.
RangeInvoke ==
    /\ ret.call = "range_intrinsic"
    /\ ret.compiled.step.tag = Ok
    /\ \E i \in (IF blk.in_ty = "Num" THEN RangeInputs ELSE { Value("Nil", 0) }),
          oks \in [1..2 -> BOOLEAN] :
          \E b \in { range_bounds(ret.compiled, i, Context(env, << >>), oks) } :
              \/ /\ b.tag = Err
                 /\ ret' = [ret EXCEPT !.call = "failed", !.input = i, !.oks = oks,
                                       !.res = StepR(Err, b.err, NoValue, @.cx)]
              \/ /\ b.tag = Ok
                 /\ \E cuts \in SUBSET ((b.from + 1)..(b.to - 1)) :
                       /\ Cardinality(cuts) < MaxParts
                       /\ ret' = [ret EXCEPT !.call = "map", !.input = i, !.oks = oks,
                                             !.from = b.from, !.to = b.to,
                                             !.parts = split(b.from, b.to, cuts)]
    /\ RndFrame

\* One task maps the next integer of its part: |x| vec![n(x)].
RangeMap ==
    /\ ret.call = "map"
    /\ \E k \in DOMAIN ret.parts :
          LET p == ret.parts[k]
          IN  /\ Len(p.out) < p.hi - p.lo
              /\ ret' = [ret EXCEPT
                            !.parts[k].out = Append(@, p.lo + Len(p.out)),
                            !.finished = IF Len(p.out) + 1 = p.hi - p.lo
                                         THEN Append(@, k) ELSE @]
    /\ RndFrame

\* Every part is mapped: par_extend appends the rows below the header.
RangeCollect ==
    /\ ret.call = "map"
    /\ \A k \in DOMAIN ret.parts : Len(ret.parts[k].out) = ret.parts[k].hi - ret.parts[k].lo
    /\ ret' = [ret EXCEPT
                  !.call = "done",
                  !.res = StepR(Ok, DefaultError,
                                Value("Tab", Table("i", par_extend(ret.parts, ret.finished))),
                                @.cx)]
    /\ RndFrame

NextRng == RangeCompile \/ RangeInvoke \/ RangeMap \/ RangeCollect

SpecRng == InitRng /\ [][NextRng]_vars

\* C25: the table range builds has the header i and below it exactly the
\* integers from, from + 1, .., to - 1 in ascending order (no row when from
\* is not below to), however the parallel map was split and scheduled; on
\* a Num input with a single argument, to is the input and from is the
\* argument.
C25_RangeAscending ==
    ret.call = "done" =>
        LET cx   == Context(env, << >>)
            from == resolve_uint(blk.args[Len(blk.args)], ret.input, cx, ret.oks[1]).value
            to   == IF Len(blk.args) = 1 /\ blk.in_ty = "Num"
                    THEN ret.input.value
                    ELSE resolve_uint(blk.args[Len(blk.args) - 1], ret.input, cx,
                                      ret.oks[2]).value
            rows == ret.res.value.value.rows
        IN  /\ ret.res.tag = Ok /\ ret.res.value.ty = "Tab"
            /\ ret.res.value.value.header = "i"
            /\ Len(rows) = (IF from < to THEN to - from ELSE 0)
            /\ \A k \in DOMAIN rows : rows[k] = from + k - 1

\* C25 witness: range was split into three parts, the last part finished
\* first, and the table has the rows 0, 1, 2 below the header; the block had
\* one argument and the Num input 3.
C25_Witness ==
    /\ ret.call = "done"
    /\ Len(blk.args) = 1 /\ blk.in_ty = "Num" /\ ret.input = Value("Num", 3)
    /\ Len(ret.parts) = 3 /\ ret.finished[1] = 3
    /\ ret.res.value.value.rows = << 0, 1, 2 >>

----------------------------------------------------------------------------
(* SpecTup: a Tuple block is compiled by tuple_intrinsic, its Step is      *)
(* invoked, the instance it returns may be cloned, and a field of it is    *)
(* read through FieldAccessor::construct and FieldAccessor::get.           *)

\* Tuple::ty: the product type U_<ty0>-<ty1>-.._ with the fields t0, t1, ..
RECURSIVE tuple_name(_, _)
tuple_name(tys, i) ==
    IF i > Len(tys) THEN "_"
    ELSE (IF i > 1 THEN "-" ELSE "") \o tys[i] \o tuple_name(tys, i + 1)

Tuple_ty(tys) ==
    TypeDef("U_" \o tuple_name(tys, 1), "Product",
            [i \in DOMAIN tys |-> Field("t" \o ToString(i - 1), tys[i])])

\* The loop of tuple_intrinsic taking the arguments last to first: a mutant.
RECURSIVE next_args_rev(_, _)
next_args_rev(b, k) ==
    IF k = 0 THEN [args |-> << >>, blk |-> b, err |-> DefaultError, tag |-> Ok]
    ELSE With(next_arg(b), LAMBDA a :
            IF a.tag = Err
            THEN [args |-> << >>, blk |-> a.blk, err |-> a.err, tag |-> Err]
            ELSE IF concrete(a.arg).tag = Err
            THEN [args |-> << >>, blk |-> a.blk, err |-> concrete(a.arg).err, tag |-> Err]
            ELSE With(next_args_rev(a.blk, k - 1), LAMBDA rest :
                     IF rest.tag = Err THEN rest
                     ELSE [rest EXCEPT !.args = @ \o << a.arg >>]))

\* for _ in 0..len { v.push(blk.next_arg()?.supplied(None)?.concrete()?) }
RECURSIVE next_args(_, _)
next_args(b, k) ==
    IF k = 0 THEN [args |-> << >>, blk |-> b, err |-> DefaultError, tag |-> Ok]
    ELSE With(next_arg(b), LAMBDA a :
            IF a.tag = Err
            THEN [args |-> << >>, blk |-> a.blk, err |-> a.err, tag |-> Err]
            ELSE IF concrete(a.arg).tag = Err
            THEN [args |-> << >>, blk |-> a.blk, err |-> concrete(a.arg).err, tag |-> Err]
            ELSE With(next_args(a.blk, k - 1), LAMBDA rest :
                     IF rest.tag = Err THEN rest
                     ELSE [rest EXCEPT !.args = << a.arg >> \o @]))

\* No type inserted into the compiler's table of anonymous types.
NoTypeDef == TypeDef(None, None, << >>)

\* The Result<Step> of tuple_intrinsic with the arguments its closure holds,
\* the type inserted into the compiler and the arguments left on the stack.
TupleStep(r, v, ty, left) == [inserted |-> ty, left |-> left, step |-> r, v |-> v]

\* tuple_intrinsic
tuple_intrinsic(b) ==
    With(args_len(b), LAMBDA len :
        IF len < 2
        THEN TupleStep(Fail(b, insufficient_args(b.op_tag, len, None)),
                       << >>, NoTypeDef, args_len(b))
        ELSE With(next_args(b, len), LAMBDA n :
            IF n.tag = Err
            THEN TupleStep(Fail(n.blk, n.err), << >>, NoTypeDef, args_len(n.blk))
            ELSE With(Tuple_ty([i \in DOMAIN n.args |-> n.args[i].out_ty]), LAMBDA ty :
                 With(assert_output(n.blk, ty.name), LAMBDA o :
                     IF o.tag = Panic
                     THEN TupleStep(Panicked(o.blk), << >>, ty, args_len(o.blk))
                     ELSE TupleStep(Evald(o.blk, ty.name, << >>), n.args, ty,
                                    args_len(o.blk))))))

\* OgmaData: an instance of the user type ty with the data of its fields,
\* behind a handle that holders many values share.
OgmaData(ty, data, holders) == [data |-> data, holders |-> holders, ty |-> ty]

NoData == OgmaData(NoTypeDef, << >>, 0)

\* for arg in &v { data.push(arg.resolve(|| input.clone(), &cx)?) }
RECURSIVE resolve_all(_, _, _, _, _)
resolve_all(v, k, input, cx, oks) ==
    IF k > Len(v) THEN [data |-> << >>, err |-> DefaultError, tag |-> Ok]
    ELSE With(Argument_resolve(v[k], input, cx, oks[k]), LAMBDA r :
            IF r.tag = Err THEN [data |-> << >>, err |-> r.err, tag |-> Err]
            ELSE With(resolve_all(v, k + 1, input, cx, oks), LAMBDA rest :
                     IF rest.tag = Err THEN rest
                     ELSE [rest EXCEPT !.data = << r.value >> \o @]))

\* The closure tuple_intrinsic hands to eval: a new instance of the type.
tuple_step(ts, input, cx, oks) ==
    With(resolve_all(ts.v, 1, input, cx, oks), LAMBDA d :
        IF d.tag = Err THEN [err |-> d.err, inst |-> NoData, tag |-> Err]
        ELSE [err |-> DefaultError, inst |-> OgmaData(ts.inserted, d.data, 1), tag |-> Ok])

\* FieldAccessor::get that removes the element in place whoever else holds
\* the instance: a mutant.
FieldAccessor_get_in_place(x, idx) ==
    [inst |-> [x EXCEPT !.data = remove(@, idx + 1), !.holders = @ - 1],
     value |-> x.data[idx + 1]]

\* FieldAccessor::get: the handle given is consumed; a uniquely owned
\* instance gives its element up, a shared one has it cloned
FieldAccessor_get(x, idx) ==
    IF x.holders = 1
    THEN [inst |-> [x EXCEPT !.data = remove(@, idx + 1), !.holders = 0],
          value |-> x.data[idx + 1]]
    ELSE [inst |-> [x EXCEPT !.holders = @ - 1], value |-> x.data[idx + 1]]

\* Most arguments of a Tuple block.
MaxTupleArgs == 3
\* Most holders of an instance.
MaxHolders == 2

\* An expression that returns a Str.
ExprS == ArgNode("Expr", Tag("{ to-str }", 4, 14), "Str")

\* Arguments of a Tuple block; the type of $x is not known.
TupleArgs == { Num5, ExprN, ExprS, VarX }

\* The fields asked for.
TupleFields == { ArgNode("Ident", Tag("t" \o ToString(i), 4, 6), "Str") : i \in 0..MaxTupleArgs }

InitTup ==
    /\ IdleErr /\ IdleComp /\ IdleBat /\ IdleEval
    /\ debug \in BOOLEAN
    /\ blg = {}
    /\ \E src \in SeqsUpTo(TupleArgs, MaxTupleArgs) :
          /\ blk = NewBlock(1, 0, "Num", OpTag, Reverse(src), << >>)
          /\ ret = [before |-> NoData,
                    call |-> None,
                    compiled |-> TupleStep(NoStep, << >>, NoTypeDef, Len(src)),
                    field |-> NoArg,
                    got |-> NoValue,
                    input |-> NoValue,
                    inst |-> NoData,
                    oks |-> << >>,
                    res |-> [err |-> DefaultError, inst |-> NoData, tag |-> None]]

TupleCompile ==
    /\ ret.call = None
    /\ ret' = [ret EXCEPT !.call = "tuple_intrinsic", !.compiled = tuple_intrinsic(blk)]
    /\ RndFrame

TupleInvoke ==
    /\ ret.call = "tuple_intrinsic"
    /\ ret.compiled.step.tag = Ok
    /\ \E i \in { Value("Num", 0), Value("Num", 3) }, oks \in [1..MaxTupleArgs -> BOOLEAN] :
          \E r \in { tuple_step(ret.compiled, i, Context(env, << >>), oks) } :
              ret' = [ret EXCEPT !.call = "invoke", !.input = i, !.oks = oks,
                                 !.res = r, !.inst = r.inst]
    /\ RndFrame

\* The instance is cloned: one more value holds the same data.
TupleClone ==
    /\ ret.call = "invoke" /\ ret.res.tag = Ok
    /\ ret.inst.holders < MaxHolders
    /\ ret' = [ret EXCEPT !.inst.holders = @ + 1]
    /\ RndFrame

\* get <field> on the instance: construct at compile time, get on the value.
TupleGet ==
    /\ ret.call = "invoke" /\ ret.res.tag = Ok
    /\ \E f \in TupleFields :
          \E c \in { construct(ret.inst.ty, f, Tag("get", 0, 3)) } :
              /\ c.tag = Ok
              /\ \E g \in { FieldAccessor_get(ret.inst, c.idx) } :
                    ret' = [ret EXCEPT !.call = "get", !.field = f, !.before = ret.inst,
                                       !.got = g.value, !.inst = g.inst]
    /\ RndFrame

NextTup == TupleCompile \/ TupleInvoke \/ TupleClone \/ TupleGet

SpecTup == InitTup /\ [][NextTup]_vars

\* The arguments of the block in source order.
SourceArgs == Reverse(blk.args)

\* The value the i-th argument resolves to on the input of the invocation.
ArgValue(i) == Argument_resolve(SourceArgs[i], ret.input, Context(env, << >>), TRUE).value

\* C23: a Tuple block of fewer than two arguments fails with the hard
\* insufficient_args error and all its arguments still on the stack.  A
\* block of n >= 2 arguments that compiles has consumed all n, inserted the
\* product type of the arguments' output types in order (fields t0, t1, ..)
\* and asserted it as its output; it fails to compile only on an argument
\* of unknown type.  The instance its Step returns has n elements, element
\* i the value of the i-th argument in source order, and get t<i> on it
\* returns that value.
C23_TupleConstruction ==
    LET n == Len(SourceArgs)
        c == ret.compiled
    IN  /\ (ret.call # None /\ n < 2) =>
              /\ c.step.tag = Err /\ c.step.err.hard
              /\ c.step.err = insufficient_args(blk.op_tag, n, None)
              /\ c.left = n
        /\ (ret.call # None /\ n >= 2) =>
              /\ c.step.tag = Ok <=> \A i \in 1..n : SourceArgs[i].out_ty # None
              /\ c.step.tag = Ok =>
                    /\ c.left = 0
                    /\ c.inserted.structure = "Product"
                    /\ Len(c.inserted.fields) = n
                    /\ \A i \in 1..n :
                          c.inserted.fields[i]
                              = Field("t" \o ToString(i - 1), SourceArgs[i].out_ty)
                    /\ c.step.out_ty = c.inserted.name
                    /\ c.step.chgs = << KnownOutput(blk.node, c.inserted.name) >>
        /\ (ret.call \in { "invoke", "get" } /\ ret.res.tag = Ok) =>
              /\ ret.res.inst.ty = c.inserted
              /\ Len(ret.res.inst.data) = n
              /\ \A i \in 1..n : ret.res.inst.data[i] = ArgValue(i)
        /\ ret.call = "get" =>
              \A i \in 1..n :
                  ret.field.tag.str = "t" \o ToString(i - 1) => ret.got = ArgValue(i)

\* C23 witness: Tuple 5 { to-str } { + 1 } on the input 3 built an instance
\* of U_Num-Str-Num_ and get t2 returned the third argument's value 4.
C23_Witness ==
    /\ ret.call = "get"
    /\ SourceArgs = << Num5, ExprS, ExprN >>
    /\ ret.compiled.inserted.name = "U_Num-Str-Num_"
    /\ ret.input = Value("Num", 3)
    /\ ret.field.tag.str = "t2"
    /\ ret.got = Value("Num", 4)

\* C29: get returns the element at the accessor's index whether the
\* instance is uniquely owned or shared, and the data of a shared instance
\* is the same after the call.
C29_GetIgnoresOwnership ==
    ret.call = "get" =>
        LET i == construct(ret.before.ty, ret.field, Tag("get", 0, 3)).idx
        IN  /\ ret.got = ret.before.data[i + 1]
            /\ ret.before.holders > 1 =>
                  /\ ret.inst.data = ret.before.data
                  /\ ret.inst.holders = ret.before.holders - 1

\* C29 witness: the instance was held twice when get t0 was called on it; the
\* call returned the first element and the other holder still sees all
\* three.
C29_Witness ==
    /\ ret.call = "get"
    /\ ret.before.holders = 2 /\ ret.inst.holders = 1
    /\ ret.field.tag.str = "t0"
    /\ Len(ret.before.data) = 3 /\ ret.got = ret.before.data[1]
    /\ Len(ret.inst.data) = 3

----------------------------------------------------------------------------
(* SpecLet: let_intrinsic applied to a let block of 0 to MaxLetArgs        *)
(* arguments, with or without a flag, as the last block of its expression  *)
(* or before a block whose locals may already hold the variables.          *)

\* Most arguments of a let block.
MaxLetArgs == 4

\* Arguments of a let block.
LetArgs == { VarX, VarY, ExprN, Num5 }

InitLet ==
    /\ IdleErr /\ IdleComp /\ IdleBat /\ IdleEval
    /\ debug \in BOOLEAN
    /\ \E src \in SeqsUpTo(LetArgs, MaxLetArgs), flags \in SeqsUpTo(FlagPool, 1),
          nxt \in {0, 2} :
           /\ blk = NewBlock(1, nxt, "Num", Tag("let", 0, 3), Reverse(src), flags)
           /\ blg \in IF nxt = 0 THEN { {} }
                      ELSE { {}, { [name |-> v, node |-> nxt, ty |-> "Num"] : v \in {"x", "y"} } }
    /\ ret = [call |-> None, res |-> NoStep]

LetCompile ==
    /\ ret.call = None
    /\ ret' = [ret EXCEPT !.call = "let_intrinsic", !.res = let_intrinsic(blk, blg)]
    /\ RndFrame

NextLet == LetCompile

SpecLet == InitLet /\ [][NextLet]_vars

\* C28: a let block of n arguments that compiles has taken n \div 2 pairs
\* of an expression and a variable in source order and, exactly when n is
\* odd, one trailing variable bound to the input, so that no argument is
\* left: let never fails with unused_args, and when it fails the error is
\* that of the argument builder (unknown output type), of create_var_ref
\* (unexp_arg_variant, update_locals_graph) or the unused_flags of
\* finalisation.
C28_LetConsumesAll ==
    ret.call = "let_intrinsic" =>
        LET n == Len(SourceArgs)
            r == ret.res
        IN  /\ r.tag = Ok =>
                  /\ Len(r.bindings) = n \div 2
                  /\ \A k \in 1..(n \div 2) :
                        /\ r.bindings[k].arg = SourceArgs[2 * k - 1]
                        /\ r.bindings[k].var.name = SourceArgs[2 * k].tag.str
                        /\ r.bindings[k].var.ty = SourceArgs[2 * k - 1].out_ty
                  /\ (n % 2 = 1) <=> (r.trailing # NoVariable)
                  /\ n % 2 = 1 =>
                        /\ r.trailing.name = SourceArgs[n].tag.str
                        /\ r.trailing.ty = blk.in_ty
            /\ r.tag = Err =>
                  /\ r.err.desc # unused_args(<< DefaultTag >>).desc
                  /\ \/ r.err.desc = unknown_arg_output_type(DefaultTag).desc
                     \/ r.err.desc[1] = unexp_arg_variant(DefaultTag, "number").desc[1]
                     \/ r.err.desc = update_locals_graph(DefaultTag).desc
                     \/ r.err.desc = unused_flags(blk.flags).desc

\* C28 witness: let { + 1 } $x $y compiled with the pair ({ + 1 }, $x) and
\* the trailing variable $y.
C28_Witness ==
    /\ ret.call = "let_intrinsic" /\ ret.res.tag = Ok
    /\ SourceArgs = << ExprN, VarX, VarY >>
    /\ Len(ret.res.bindings) = 1 /\ ret.res.bindings[1].var.name = "x"
    /\ ret.res.trailing.name = "y"

====
